---- MODULE Spec2Model ----
(***************************************************************************)
(* Model of the Udemy transcript downloader (src/src/index.js):           *)
(*   - chunkArray            round-robin partition of the work list       *)
(*   - processCourseStructure  curriculum records -> chapter/lecture tree *)
(*   - convertVttToSrt       timed-text to subtitle records               *)
(*   - downloadTranscripts / processLecture  the lanes and the per-lecture*)
(*     extraction steps                                                   *)
(* JavaScript strings are modelled as sequences of one-character strings. *)
(***************************************************************************)
EXTENDS Integers, Sequences, FiniteSets, TLC

(***************************************************************************)
(* Bounds of the model.                                                    *)
(***************************************************************************)
MaxItems == 7        \* longest work list given to chunkArray in SpecChunk
MaxChunks == 3       \* largest lane count in SpecChunk
MaxRecords == 3      \* longest curriculum listing in SpecResolve
MaxSortOrder == 3    \* largest sort_order in SpecResolve

(***************************************************************************)
(* Generic helpers for JavaScript arrays and strings.                      *)
(***************************************************************************)
\* A value that may be null or undefined is a sequence of length at most one:
\* Null for null/undefined, Some(x) for the value x.
Null == <<>>
Some(x) == <<x>>
Val(o) == o[1]

\* Sequences over S of length at most n.
SeqUpTo(S, n) == UNION {[1..k -> S] : k \in 0..n}

\* String.prototype.toLowerCase on the letters the model uses.
LowerChar(c) ==
  CASE c = "V" -> "v" [] c = "I" -> "i" [] c = "D" -> "d" [] c = "E" -> "e"
    [] c = "O" -> "o" [] c = "A" -> "a" [] c = "R" -> "r" [] c = "T" -> "t"
    [] OTHER -> c

toLowerCase(s) == [i \in 1..Len(s) |-> LowerChar(s[i])]

\* String.prototype.includes: sub occurs in s at some offset.
includes(s, sub) ==
  \E off \in 0..(Len(s) - Len(sub)) :
     \A i \in 1..Len(sub) : s[off + i] = sub[i]

(***************************************************************************)
(* chunkArray (index.js 466-472).  chunks is indexed 0..chunkCount-1 as    *)
(* in the source; arr is 1-based here, so the item at JavaScript position  *)
(* index is arr[index + 1].                                                *)
(***************************************************************************)
\* A lane choice that is off by one position.
chunkIndex_shifted(index, chunkCount) == (index + 1) % chunkCount

\* The lane of the item at position index (index.js 469).
chunkIndex(index, chunkCount) == index % chunkCount

RECURSIVE chunkForEach(_, _, _, _)
chunkForEach(arr, chunkCount, index, chunks) ==
  IF index >= Len(arr) THEN chunks
  ELSE chunkForEach(arr, chunkCount, index + 1,
         [chunks EXCEPT ![chunkIndex(index, chunkCount)] =
                           Append(@, arr[index + 1])])

chunkArray(arr, chunkCount) ==
  chunkForEach(arr, chunkCount, 0, [j \in 0..(chunkCount - 1) |-> <<>>])

(***************************************************************************)
(* processCourseStructure (index.js 270-321).                              *)
(* A curriculum record is [id, class, sort_order, asset]; asset is Null or *)
(* Some([asset_type, captions]), and both fields of an asset may be Null   *)
(* in turn.  currentChapter, a reference to the last                       *)
(* element pushed on courseStructure.chapters, is the position of that     *)
(* element (0 for null).                                                   *)
(***************************************************************************)
Str_video == <<"v", "i", "d", "e", "o">>

\* [...results].sort((a, b) => b.sort_order - a.sort_order), a stable sort:
\* each record goes behind the records whose sort_order is not smaller.
\* A comparator that sorts ascending.
compareFn_ascending(a, b) == a.sort_order - b.sort_order

\* The comparator of index.js 277: negative when a goes before b.
compareFn(a, b) == b.sort_order - a.sort_order

RECURSIVE sortInsert(_, _, _)
sortInsert(sorted, item, k) ==
  IF k > Len(sorted) THEN Append(sorted, item)
  ELSE IF compareFn(item, sorted[k]) < 0
       THEN SubSeq(sorted, 1, k - 1) \o <<item>> \o SubSeq(sorted, k, Len(sorted))
       ELSE sortInsert(sorted, item, k + 1)

RECURSIVE sortDesc(_, _, _)
sortDesc(results, n, sorted) ==
  IF n > Len(results) THEN sorted
  ELSE sortDesc(results, n + 1, sortInsert(sorted, results[n], 1))

sortedResults(results) == sortDesc(results, 1, <<>>)

\* A condition that forgets to look at the asset type.
isVideoLecture_anyAsset(item) ==
  /\ item.class = "lecture"
  /\ item.asset # Null

\* The condition of index.js 294-297.
isVideoLecture(item) ==
  /\ item.class = "lecture"
  /\ item.asset # Null
  /\ Val(item.asset).asset_type # Null
  /\ includes(toLowerCase(Val(Val(item.asset).asset_type)), Str_video)

\* item.asset.captions.filter(c => c.url) (index.js 308-310); Null when the
\* asset carries no captions array.
RECURSIVE filterUrl(_)
filterUrl(caps) ==
  IF caps = <<>> THEN <<>>
  ELSE IF Head(caps).url # Null THEN <<Head(caps)>> \o filterUrl(Tail(caps))
       ELSE filterUrl(Tail(caps))

lectureCaptions(asset) ==
  IF asset.captions # Null THEN Some(filterUrl(Val(asset.captions))) ELSE Null

\* A new chapter that lets the lecture counter run on.
lectureCounterOfNewChapter_running(st) == st.lectureCounter

\* The lecture counter after a chapter record (index.js 292).
lectureCounterOfNewChapter(st) == 1

\* One iteration of sortedResults.forEach (index.js 283-318).
resolveItem(st, item) ==
  IF item.class = "chapter"
  THEN [st EXCEPT
          !.chapters = Append(@, [id |-> item.id, title |-> item.title,
                                  index |-> st.chapterCounter,
                                  lectures |-> <<>>]),
          !.currentChapter = Len(st.chapters) + 1,
          !.chapterCounter = @ + 1,
          !.lectureCounter = lectureCounterOfNewChapter(st)]
  ELSE IF isVideoLecture(item)
  THEN LET lecture ==
             [id |-> item.id,
              title |-> item.title,
              created |-> item.created,
              timeEstimation |-> Val(item.asset).time_estimation,
              chapterIndex |-> IF st.currentChapter # 0
                               THEN Some(st.chapters[st.currentChapter].index)
                               ELSE Null,
              lectureIndex |-> st.lectureCounter,
              captions |-> lectureCaptions(Val(item.asset))]
       IN IF st.currentChapter # 0
          THEN [st EXCEPT
                  !.chapters[st.currentChapter].lectures = Append(@, lecture),
                  !.lectureCounter = @ + 1]
          ELSE [st EXCEPT
                  !.lectures = Append(@, lecture),
                  !.lectureCounter = @ + 1]
  ELSE st

RECURSIVE resolveForEach(_, _, _)
resolveForEach(sorted, n, st) ==
  IF n > Len(sorted) THEN st
  ELSE resolveForEach(sorted, n + 1, resolveItem(st, sorted[n]))

processCourseStructure(results) ==
  LET st == resolveForEach(sortedResults(results), 1,
              [chapters |-> <<>>, lectures |-> <<>>, currentChapter |-> 0,
               chapterCounter |-> 1, lectureCounter |-> 1])
  IN [chapters |-> st.chapters, lectures |-> st.lectures]

(***************************************************************************)
(* String helpers used by the converter.                                   *)
(***************************************************************************)
IsWhitespace(c) == c \in {" ", "\n", "\r", "\t"}

\* String.prototype.trim.
RECURSIVE trimStart(_)
trimStart(s) ==
  IF s # <<>> /\ IsWhitespace(Head(s)) THEN trimStart(Tail(s)) ELSE s

RECURSIVE trimEnd(_)
trimEnd(s) ==
  IF s # <<>> /\ IsWhitespace(s[Len(s)])
  THEN trimEnd(SubSeq(s, 1, Len(s) - 1)) ELSE s

trim(s) == trimEnd(trimStart(s))

\* The offsets (1-based) at which sep occurs in s.
Occurrences(s, sep) ==
  {k \in 1..(Len(s) - Len(sep) + 1) : SubSeq(s, k, k + Len(sep) - 1) = sep}

Min(S) == CHOOSE x \in S : \A y \in S : x <= y

\* String.prototype.split with a non-empty string separator.
RECURSIVE split(_, _)
split(s, sep) ==
  IF Occurrences(s, sep) = {} THEN <<s>>
  ELSE LET k == Min(Occurrences(s, sep))
       IN <<SubSeq(s, 1, k - 1)>> \o split(SubSeq(s, k + Len(sep), Len(s)), sep)

\* Array.prototype.join.
RECURSIVE join(_, _)
join(arr, sep) ==
  IF arr = <<>> THEN <<>>
  ELSE IF Len(arr) = 1 THEN arr[1]
  ELSE arr[1] \o sep \o join(Tail(arr), sep)

\* String.prototype.padStart and padEnd with a one-character filler.
RECURSIVE padStart(_, _, _)
padStart(s, n, c) == IF Len(s) >= n THEN s ELSE padStart(<<c>> \o s, n, c)

RECURSIVE padEnd(_, _, _)
padEnd(s, n, c) == IF Len(s) >= n THEN s ELSE padEnd(s \o <<c>>, n, c)

\* The decimal digits of a natural number, as `${n}` renders it.
Digit(d) == <<"0", "1", "2", "3", "4", "5", "6", "7", "8", "9">>[d + 1]

RECURSIVE numberToString(_)
numberToString(n) ==
  IF n < 10 THEN <<Digit(n)>>
  ELSE numberToString(n \div 10) \o <<Digit(n % 10)>>

(***************************************************************************)
(* normalizeTimestamp (index.js 324-333).                                  *)
(***************************************************************************)
Str_00 == <<"0", "0">>
Str_000 == <<"0", "0", "0">>
Str_undefined == <<"u", "n", "d", "e", "f", "i", "n", "e", "d">>

\* A loop that appends the missing units behind the seconds.
RECURSIVE unshiftTo3_push(_)
unshiftTo3_push(parts) ==
  IF Len(parts) < 3 THEN unshiftTo3_push(parts \o <<Str_00>>) ELSE parts

\* while (parts.length < 3) parts.unshift('00')
RECURSIVE unshiftTo3(_)
unshiftTo3(parts) ==
  IF Len(parts) < 3 THEN unshiftTo3(<<Str_00>> \o parts) ELSE parts

normalizeTimestamp(ts) ==
  LET pieces == split(ts, <<".">>)
      main == pieces[1]
      \* ms || '000': undefined and the empty string both give '000'
      ms == IF Len(pieces) >= 2 /\ pieces[2] # <<>> THEN pieces[2] ELSE Str_000
      parts == unshiftTo3(split(main, <<":">>))
  IN join([i \in 1..Len(parts) |-> padStart(parts[i], 2, "0")], <<":">>)
       \o <<",">> \o padEnd(ms, 3, "0")

(***************************************************************************)
(* convertVttToSrt (index.js 336-350).                                     *)
(***************************************************************************)
Str_WEBVTT == <<"W", "E", "B", "V", "T", "T">>
Str_arrow == <<" ", "-", "-", ">", " ">>

\* .replace(/^WEBVTT(\n|\r|\r\n)?/, ''): the header and at most one line
\* break character behind it.
stripHeader(vtt) ==
  IF Len(vtt) >= 6 /\ SubSeq(vtt, 1, 6) = Str_WEBVTT
  THEN IF Len(vtt) >= 7 /\ vtt[7] \in {"\n", "\r"}
       THEN SubSeq(vtt, 8, Len(vtt))
       ELSE SubSeq(vtt, 7, Len(vtt))
  ELSE vtt

\* Number of consecutive line feeds of s from offset k on.
RECURSIVE newlineRun(_, _)
newlineRun(s, k) ==
  IF k <= Len(s) /\ s[k] = "\n" THEN 1 + newlineRun(s, k + 1) ELSE 0

\* .split(/\n{2,}/): cut at every maximal run of two or more line feeds.
RECURSIVE splitBlankLines(_)
splitBlankLines(s) ==
  LET starts == {k \in 1..Len(s) : newlineRun(s, k) >= 2}
  IN IF starts = {} THEN <<s>>
     ELSE LET k == Min(starts)
          IN <<SubSeq(s, 1, k - 1)>>
               \o splitBlankLines(SubSeq(s, k + newlineRun(s, k), Len(s)))

\* The number written in front of the block at array index i (index.js 346).
blockNumber(blocks, i) == i + 1

\* A callback that takes the two timestamps of the timing line in the
\* other order.
mapBlock_swapped(blocks, i) ==
  LET lines == split(trim(blocks[i + 1]), <<"\n">>)
      startEnd == lines[1]
      textLines == Tail(lines)
      stamps == split(startEnd, Str_arrow)
  IN IF Len(lines) < 2 THEN Null
     ELSE Some([index |-> blockNumber(blocks, i),
                start |-> IF Len(stamps) >= 2 THEN normalizeTimestamp(stamps[2])
                          ELSE Str_undefined,
                end |-> normalizeTimestamp(stamps[1]),
                text |-> join(textLines, <<"\n">>)])

\* The callback of .map (index.js 341-347) on the block at array index i:
\* Null for a dropped block, else the fields of the template literal.
mapBlock(blocks, i) ==
  LET lines == split(trim(blocks[i + 1]), <<"\n">>)
      startEnd == lines[1]
      textLines == Tail(lines)
      stamps == split(startEnd, Str_arrow)
  IN IF Len(lines) < 2 THEN Null
     ELSE Some([index |-> blockNumber(blocks, i),
                start |-> normalizeTimestamp(stamps[1]),
                end |-> IF Len(stamps) >= 2 THEN normalizeTimestamp(stamps[2])
                        ELSE Str_undefined,
                text |-> join(textLines, <<"\n">>)])

\* .filter(Boolean) over the mapped blocks.
RECURSIVE filterBoolean(_)
filterBoolean(arr) ==
  IF arr = <<>> THEN <<>>
  ELSE IF Head(arr) # Null THEN <<Val(Head(arr))>> \o filterBoolean(Tail(arr))
       ELSE filterBoolean(Tail(arr))

\* The subtitle records that convertVttToSrt emits, in order.
srtRecords(vtt) ==
  LET blocks == splitBlankLines(trim(stripHeader(vtt)))
  IN filterBoolean([n \in 1..Len(blocks) |-> mapBlock(blocks, n - 1)])

\* `${i + 1}\n${start} --> ${end}\n${textLines.join('\n')}\n`
renderRecord(r) ==
  numberToString(r.index) \o <<"\n">> \o r.start \o Str_arrow \o r.end
    \o <<"\n">> \o r.text \o <<"\n">>

convertVttToSrt(vtt) ==
  LET recs == srtRecords(vtt)
  IN join([n \in 1..Len(recs) |-> renderRecord(recs[n])], <<"\n">>)

(***************************************************************************)
(* State.  Every specification below runs one part of the program and      *)
(* leaves the variables of the other parts at their idle values.           *)
(***************************************************************************)
VARIABLES
  cArr, cCount, cChunks, cPositions, cPc,   \* SpecChunk
  rResults, rStructure, rPc,                \* SpecResolve
  vVtt, vRecords, vSrt, vPc,                \* SpecVtt
  tsIn, tsOut, tsAgain, tsPc,               \* SpecTs
  nResults, nWork, nNames, nPc,             \* SpecNames
  gResults, gStructure, gContent, gPc,      \* SpecManifest
  \* SpecLecture: one call of processLecture, await by await
  pItem,             \* the work item: lecture and chapter
  pDownloadSrt,      \* the parameter downloadSrt
  pLanguage,         \* preferredLanguage of main (not passed on)
  pPc,               \* the await at which processLecture stands
  pSel,              \* position of the selector loop (1..6), 0 outside it
  pFound,            \* transcriptButtonFound
  pRetries,          \* retries of index.js 585
  pReads,            \* the texts that the reads of index.js 589 returned
  pLast,             \* the last operation on the page, how it ended, its delay
  pSettled,          \* a delay has passed since the last navigation or click
  pFiles,            \* output path -> contents written to it, in order
  pExit,             \* where processLecture was left
  \* SpecMain: main up to its call of downloadTranscripts
  mArgv,             \* process.argv
  mEmail,            \* process.env.UDEMY_EMAIL
  mPc,               \* the await main is at
  mDownloadSrt,      \* downloadSrt of index.js 50
  mTabAnswer,        \* what the operator typed at the question of index.js 65
  mTabCount,         \* tabCount of index.js 64: Some(n), or Null for NaN
  mCourseJson,       \* courseJson of index.js 210: Null, or what was parsed
  mAttempt,          \* the loop variable of the retry loop main is in
  mLoginPageLoaded,  \* loginPageLoaded of index.js 93
  mCourseId,         \* courseId of index.js 165
  mManifest,         \* CONTENTS.txt has been written
  mLanes,            \* downloadTranscripts has been called
  mBrowser,          \* the browser of index.js 73: none, open, closing
  mExitCode,         \* the code the process was ended with, if it was
  \* Spec: one call of downloadTranscripts
  courseStructure,   \* the resolved structure main passes in
  downloadSrt,       \* the operator's answer of index.js 50-55
  preferredLanguage, \* the operator's answer of index.js 57-62
  tabCount,          \* the operator's answer of index.js 64-69
  mainPc,            \* where main is around its call of downloadTranscripts
  allLectures,       \* the work list of index.js 424-463
  chunks,            \* the lanes' work lists of index.js 474
  lanePc,            \* lane -> position of the lane's async callback
  laneI,             \* lane -> loop variable i of index.js 481
  sel,               \* lane -> position of the selector loop (1..6), 0 outside it
  transcriptButtonFound,  \* lane -> the flag of index.js 531
  lastTry,           \* lane -> what the last selector pass did on the page
  retries,           \* lane -> the counter of index.js 585
  callers,           \* lecture id -> lanes that called processLecture on it
  exit,              \* lecture id -> where processLecture was left
  page,              \* lane -> the page of index.js 478, once created
  openPages,         \* the pages of the browser that are open
  browser,           \* the browser main launched: open, closing or closed
  files,             \* output path -> contents written to it, in order
  \* SpecToggle: the selector loop of processLecture on a page with a toggle
  kMatches,          \* the selectors (by position) that match the toggle
  kPanelVisible,     \* the transcript panel of the page is visible
  kPc,               \* the await at which the selector loop stands
  kSel,              \* position of the selector loop (1..6)
  kFound,            \* transcriptButtonFound
  \* SpecCues: the subtitle generation from the cues of the panel
  qCount,            \* cueHandles.length
  qCues,             \* cues: the start read for each cue, or Null
  qFinalEnd,         \* finalEnd: the duration read, or Null
  qSrtData,          \* srtData
  qPc,               \* where the generation stands
  \* SpecServer: the session map of server/api.js
  sNow,              \* Date.now(), in milliseconds since the start
  sObjects,          \* the session objects that were created, by reference
  sSessions,         \* downloadSessions: key -> reference
  sTimeouts,         \* the download ids of the pending setTimeout calls
  sIntervals,        \* the setInterval timers and their closures
  sReplies,          \* the successful answers: kind, key, session stored
  \* SpecDash: the Dashboard component
  dCourseUrl,        \* the state courseUrl
  dIsProcessing,     \* the state isProcessing
  dProgress,         \* the state progress
  dError,            \* the state error
  dHistory,          \* downloadHistory.length
  dRequest,          \* the request in flight or the timer set, if any
  \* SpecLegacy: the download loop of POST /api/download
  lTotal,            \* downloadProgress.total
  lI,                \* the loop variable i
  lCompleted,        \* downloadProgress.completed
  lStatus,           \* downloadProgress.status
  lErrors,           \* the passes that ended in the catch
  \* SpecAuth: the login form and the guard of the Dashboard
  aRoute,            \* the route that is rendered
  aStep,             \* the state step
  aEmail,            \* formData.email
  aMfaCode,          \* formData.mfaCode
  aIsLoading,        \* the state isLoading
  aError,            \* the state error
  aRequest,          \* the request in flight, if any
  aLast,             \* the status of the last answer (0: none came)
  aToken             \* authToken of the session storage, or Null

chunkVars == <<cArr, cCount, cChunks, cPositions, cPc>>
resolveVars == <<rResults, rStructure, rPc>>
vttVars == <<vVtt, vRecords, vSrt, vPc>>
laneVars == <<lanePc, laneI, sel, transcriptButtonFound,
              lastTry, retries>>
runVars == <<courseStructure, downloadSrt, preferredLanguage, tabCount,
             mainPc, allLectures,
             chunks, laneVars, callers, exit, page, openPages, browser,
             files>>
tsVars == <<tsIn, tsOut, tsAgain, tsPc>>
namesVars == <<nResults, nWork, nNames, nPc>>
mainVars == <<mArgv, mEmail, mLoginPageLoaded, mPc, mDownloadSrt, mTabAnswer, mTabCount, mCourseJson,
             mAttempt, mCourseId, mManifest, mLanes,
              mBrowser, mExitCode>>
manifestVars == <<gResults, gStructure, gContent, gPc>>
lectureVars == <<pItem, pDownloadSrt, pLanguage, pPc, pSel, pFound, pRetries, pReads,
                 pLast, pSettled, pFiles, pExit>>
toggleVars == <<kMatches, kPanelVisible, kPc, kSel, kFound>>
\* The parts of src/src/index.js modelled so far, and the parts added below.
coreVars == <<chunkVars, resolveVars, vttVars, runVars, tsVars, namesVars, mainVars,
              manifestVars, lectureVars>>
cuesVars == <<qCount, qCues, qFinalEnd, qSrtData, qPc>>
serverVars == <<sNow, sObjects, sSessions, sTimeouts, sIntervals, sReplies>>
dashVars == <<dCourseUrl, dIsProcessing, dProgress, dError, dHistory, dRequest>>
legacyVars == <<lTotal, lI, lCompleted, lStatus, lErrors>>
authVars == <<aRoute, aStep, aEmail, aMfaCode, aIsLoading, aError, aRequest, aLast,
              aToken>>
lateVars == <<toggleVars, cuesVars, serverVars, dashVars, legacyVars, authVars>>
vars == <<coreVars, lateVars>>

\* What an action of one part leaves alone: the variables of the others.
notToggle ==
  <<coreVars, cuesVars, serverVars, dashVars, legacyVars, authVars>>
notCues ==
  <<coreVars, toggleVars, serverVars, dashVars, legacyVars, authVars>>
notServer ==
  <<coreVars, toggleVars, cuesVars, dashVars, legacyVars, authVars>>
notDash ==
  <<coreVars, toggleVars, cuesVars, serverVars, legacyVars, authVars>>
notLegacy ==
  <<coreVars, toggleVars, cuesVars, serverVars, dashVars, authVars>>
notAuth ==
  <<coreVars, toggleVars, cuesVars, serverVars, dashVars, legacyVars>>
notChunk ==
  <<resolveVars, vttVars, runVars, tsVars, namesVars, mainVars, manifestVars,
    lectureVars,
    lateVars>>
notResolve ==
  <<chunkVars, vttVars, runVars, tsVars, namesVars, mainVars, manifestVars,
    lectureVars,
    lateVars>>
notVtt ==
  <<chunkVars, resolveVars, runVars, tsVars, namesVars, mainVars, manifestVars,
    lectureVars,
    lateVars>>
notRun ==
  <<chunkVars, resolveVars, vttVars, tsVars, namesVars, mainVars, manifestVars,
    lectureVars,
    lateVars>>
notNames ==
  <<chunkVars, resolveVars, vttVars, runVars, tsVars, mainVars, manifestVars,
    lectureVars,
    lateVars>>
notMain ==
  <<chunkVars, resolveVars, vttVars, runVars, tsVars, namesVars, manifestVars,
    lectureVars,
    lateVars>>
notManifest ==
  <<chunkVars, resolveVars, vttVars, runVars, tsVars, namesVars, mainVars,
    lectureVars,
    lateVars>>
notLecture ==
  <<chunkVars, resolveVars, vttVars, runVars, tsVars, namesVars, mainVars,
    manifestVars,
    lateVars>>
notTs ==
  <<chunkVars, resolveVars, vttVars, runVars, namesVars, mainVars, manifestVars,
    lectureVars,
    lateVars>>

(***************************************************************************)
(* SpecChunk: chunkArray applied to every bounded work list and lane count.*)
(***************************************************************************)
ChunkItems == {"a", "b"}

ChunkIdle ==
  /\ cArr = <<>> /\ cCount = 1 /\ cChunks = <<>> /\ cPositions = <<>>
  /\ cPc = "idle"

ChunkInit ==
  /\ cArr \in SeqUpTo(ChunkItems, MaxItems)
  /\ cCount \in 1..MaxChunks
  /\ cChunks = <<>>
  /\ cPositions = <<>>
  /\ cPc = "input"

\* The call at index.js 474; cPositions is the same call on the list of
\* the positions 0..N-1, which shows which position every lane received.
ChunkCall ==
  /\ cPc = "input"
  /\ cChunks' = chunkArray(cArr, cCount)
  /\ cPositions' = chunkArray([i \in 1..Len(cArr) |-> i - 1], cCount)
  /\ cPc' = "chunked"
  /\ UNCHANGED <<cArr, cCount>>
  /\ UNCHANGED notChunk

(***************************************************************************)
(* SpecResolve: processCourseStructure applied to every bounded listing.   *)
(***************************************************************************)
Str_Video == <<"V", "i", "d", "e", "o">>
Str_Article == <<"A", "r", "t", "i", "c", "l", "e">>

Str_T == <<"T">>
Str_created == <<"2", "0", "2", "4", "-", "0", "3", "-", "0", "5">>

VideoAsset ==
  Some([asset_type |-> Some(Str_Video), captions |-> Null, time_estimation |-> 90])
ArticleAsset ==
  Some([asset_type |-> Some(Str_Article), captions |-> Null, time_estimation |-> 90])
UntypedAsset ==
  Some([asset_type |-> Null, captions |-> Null, time_estimation |-> 90])

\* The kinds of record of the model: chapters, quizzes, practice records
\* (here with a video asset of their own) and lectures with no asset, a
\* video asset, an article asset or an asset without a type.
ResolveKinds ==
  {[class |-> "chapter", asset |-> Null],
   [class |-> "quiz", asset |-> Null],
   [class |-> "practice", asset |-> VideoAsset],
   [class |-> "lecture", asset |-> Null],
   [class |-> "lecture", asset |-> VideoAsset],
   [class |-> "lecture", asset |-> ArticleAsset],
   [class |-> "lecture", asset |-> UntypedAsset]}

\* The listings of the model: record n has id n, and all records carry the
\* same title and creation date.
ResolveShapes ==
  {[class |-> k.class, asset |-> k.asset, sort_order |-> o] :
     k \in ResolveKinds, o \in 1..MaxSortOrder}

withIds(shapes) ==
  [n \in 1..Len(shapes) |->
     [id |-> n, class |-> shapes[n].class, title |-> Str_T,
      created |-> Str_created,
      sort_order |-> shapes[n].sort_order, asset |-> shapes[n].asset]]

EmptyStructure == [chapters |-> <<>>, lectures |-> <<>>]

ResolveIdle ==
  /\ rResults = <<>> /\ rStructure = EmptyStructure /\ rPc = "idle"

ResolveInit ==
  /\ \E shapes \in SeqUpTo(ResolveShapes, MaxRecords) : rResults = withIds(shapes)
  /\ rStructure = EmptyStructure
  /\ rPc = "input"

\* The call at index.js 248.
ResolveCall ==
  /\ rPc = "input"
  /\ rStructure' = processCourseStructure(rResults)
  /\ rPc' = "resolved"
  /\ UNCHANGED rResults
  /\ UNCHANGED notResolve

(***************************************************************************)
(* Vocabulary of the claims about chunkArray.                              *)
(***************************************************************************)
\* The positions 0..N-1 of the work list that are congruent to j modulo K.
PositionsOfLane(j) == {i \in 0..(Len(cArr) - 1) : i % cCount = j}

\* C2: chunkArray gives lane j exactly the items at the positions i with
\* i mod K = j, in ascending position order (empty when there is no such
\* position), lane sizes differ by at most one, and for N = 7, K = 3 the
\* lanes hold the positions {0,3,6}, {1,4}, {2,5}.
C2_RoundRobinPartition ==
  cPc = "chunked" =>
    /\ DOMAIN cChunks = 0..(cCount - 1)
    /\ \A j \in 0..(cCount - 1) :
         /\ Len(cPositions[j]) = Cardinality(PositionsOfLane(j))
         /\ \A p \in 1..Len(cPositions[j]) :
              cPositions[j][p] = j + (p - 1) * cCount
         /\ Len(cChunks[j]) = Len(cPositions[j])
         /\ \A p \in 1..Len(cChunks[j]) :
              cChunks[j][p] = cArr[j + (p - 1) * cCount + 1]
    /\ \A j, k \in 0..(cCount - 1) : Len(cChunks[j]) - Len(cChunks[k]) <= 1
    /\ (Len(cArr) = 7 /\ cCount = 3) =>
         /\ cPositions[0] = <<0, 3, 6>>
         /\ cPositions[1] = <<1, 4>>
         /\ cPositions[2] = <<2, 5>>

\* Seven items in three lanes, partitioned.
C2_Witness ==
  /\ cPc = "chunked" /\ Len(cArr) = 7 /\ cCount = 3
  /\ Len(cChunks[0]) = 3 /\ Len(cChunks[2]) = 2

(***************************************************************************)
(* Vocabulary of the claims about processCourseStructure.                  *)
(***************************************************************************)
\* Position of input record n in descending-sort_order order (records of
\* equal sort_order keep their input order).
Rank(n) ==
  1 + Cardinality({q \in 1..Len(rResults) :
        \/ rResults[q].sort_order > rResults[n].sort_order
        \/ rResults[q].sort_order = rResults[n].sort_order /\ q < n})

\* The input records that are lectures with a video asset and those that
\* are chapters, by their position in the input (which is their id).
VideoRecords ==
  {n \in 1..Len(rResults) :
     rResults[n].class = "lecture" /\ rResults[n].asset = VideoAsset}
ChapterRecords == {n \in 1..Len(rResults) : rResults[n].class = "chapter"}

\* All groups of lectures of the resolved structure: one per chapter, and
\* the standalone group last.
Groups ==
  [k \in 1..Len(rStructure.chapters) |-> rStructure.chapters[k].lectures]
    \o <<rStructure.lectures>>

\* C7: chapter ordinals are 1..C in descending-sort_order order, and in
\* every chapter and in the standalone group the lecture ordinals are
\* 1..n, whatever records were excluded in between.
C7_ContiguousOrdinals ==
  rPc = "resolved" =>
    /\ Len(rStructure.chapters) = Cardinality(ChapterRecords)
    /\ \A k \in 1..Len(rStructure.chapters) :
         /\ rStructure.chapters[k].index = k
         /\ rStructure.chapters[k].id \in ChapterRecords
         /\ \A k2 \in 1..Len(rStructure.chapters) :
              k < k2 => Rank(rStructure.chapters[k].id)
                          < Rank(rStructure.chapters[k2].id)
    /\ \A g \in 1..Len(Groups) :
         \A p \in 1..Len(Groups[g]) : Groups[g][p].lectureIndex = p

\* A chapter whose lectures start again at 1 behind a standalone lecture
\* that has used the ordinal 1 already.
C7_Witness ==
  /\ rPc = "resolved"
  /\ Len(rStructure.lectures) = 1
  /\ rStructure.lectures[1].lectureIndex = 1
  /\ Len(rStructure.chapters) = 1
  /\ rStructure.chapters[1].index = 1
  /\ Len(rStructure.chapters[1].lectures) = 1
  /\ rStructure.chapters[1].lectures[1].lectureIndex = 1

\* C8: a record is a lecture of the resolved structure only if it is of
\* lecture kind with a video asset; every other record is left out.
C8_OnlyVideoLectures ==
  rPc = "resolved" =>
    \A g \in 1..Len(Groups) :
      \A p \in 1..Len(Groups[g]) : Groups[g][p].id \in VideoRecords

\* A listing with a video lecture that is included next to a non-video
\* lecture and a record of another kind that are not.
C8_Witness ==
  /\ rPc = "resolved"
  /\ \E g \in 1..Len(Groups) : Len(Groups[g]) = 1
  /\ \E n \in 1..Len(rResults) :
       rResults[n].class = "lecture" /\ rResults[n].asset # VideoAsset
  /\ \E n \in 1..Len(rResults) : rResults[n].class = "practice"

\* The places (group, position) where the record with id n occurs.
PlacesOf(n) ==
  {gp \in (1..Len(Groups)) \X (1..MaxRecords + 1) :
     gp[2] <= Len(Groups[gp[1]]) /\ Groups[gp[1]][gp[2]].id = n}

\* The chapter records that precede record n in sorted order.
ChaptersBefore(n) == {c \in ChapterRecords : Rank(c) < Rank(n)}

\* C9: every included lecture is in the chapter whose record most closely
\* precedes it in descending-sort_order order, in that order, in the
\* standalone group exactly when no chapter record precedes it, and in
\* one place only.
C9_LecturePlacement ==
  rPc = "resolved" =>
    /\ \A n \in VideoRecords :
         /\ Cardinality(PlacesOf(n)) = 1
         /\ \A gp \in PlacesOf(n) :
              /\ (gp[1] = Len(Groups)) <=> (ChaptersBefore(n) = {})
              /\ gp[1] < Len(Groups) =>
                   /\ rStructure.chapters[gp[1]].id \in ChaptersBefore(n)
                   /\ \A c \in ChaptersBefore(n) :
                        Rank(c) <= Rank(rStructure.chapters[gp[1]].id)
                   /\ Groups[gp[1]][gp[2]].chapterIndex = Some(gp[1])
              /\ gp[1] = Len(Groups) => Groups[gp[1]][gp[2]].chapterIndex = Null
    /\ \A g \in 1..Len(Groups) :
         \A p, q \in 1..Len(Groups[g]) :
            p < q => Rank(Groups[g][p].id) < Rank(Groups[g][q].id)

\* A standalone lecture, then a chapter with a lecture of its own, given
\* in the listing in the inverted order.
C9_Witness ==
  /\ rPc = "resolved"
  /\ Len(rStructure.lectures) = 1
  /\ Len(rStructure.chapters) = 1
  /\ Len(rStructure.chapters[1].lectures) = 1
  /\ rStructure.lectures[1].id > rStructure.chapters[1].lectures[1].id

(***************************************************************************)
(* SpecVtt: convertVttToSrt applied to the timed-text payloads that are    *)
(* concatenations of at most MaxPieces pieces.                             *)
(***************************************************************************)
MaxPieces == 5

Str_cueA == <<"0", ":", "0", "5", ".", "5", "0", "0">> \o Str_arrow
              \o <<"0", ":", "0", "8", "\n", "H", "i">>
Str_cueB == <<"0", "1", ":", "0", "2", ":", "0", "3", ".", "5">> \o Str_arrow
              \o <<"0", "1", ":", "0", "2", ":", "0", "4">>
              \o <<"\n", "Y", "o", "\n", "h", "o">>
Str_NOTE == <<"N", "O", "T", "E">>

VttPieces == {Str_WEBVTT, <<"\n">>, <<"\n", "\n">>, Str_cueA, Str_cueB, Str_NOTE}

RECURSIVE concat(_)
concat(pieces) == IF pieces = <<>> THEN <<>> ELSE Head(pieces) \o concat(Tail(pieces))

VttIdle ==
  /\ vVtt = <<>> /\ vRecords = <<>> /\ vSrt = <<>> /\ vPc = "idle"

VttInit ==
  /\ \E pieces \in SeqUpTo(VttPieces, MaxPieces) : vVtt = concat(pieces)
  /\ vRecords = <<>>
  /\ vSrt = <<>>
  /\ vPc = "input"

\* The call at index.js 627.
VttCall ==
  /\ vPc = "input"
  /\ vRecords' = srtRecords(vVtt)
  /\ vSrt' = convertVttToSrt(vVtt)
  /\ vPc' = "converted"
  /\ UNCHANGED vVtt
  /\ UNCHANGED notVtt

(***************************************************************************)
(* Vocabulary of the claims about convertVttToSrt.                         *)
(***************************************************************************)
\* The blocks of the payload and those of them that are dropped.
InputBlocks == splitBlankLines(trim(stripHeader(vVtt)))
DroppedBlocks ==
  {k \in 1..Len(InputBlocks) : Len(split(trim(InputBlocks[k]), <<"\n">>)) < 2}

\* C10: the emitted subtitle records carry the indices 1..N in order, N
\* the number of emitted records, also when malformed blocks were dropped.
C10_ContiguousIndices ==
  vPc = "converted" =>
    \A n \in 1..Len(vRecords) : vRecords[n].index = n

(***************************************************************************)
(* SpecTs: normalizeTimestamp applied to every timestamp of the grammar    *)
(* [[HH:]MM:]SS[.mmm] over the digits TsDigits, and then to its own result.*)
(***************************************************************************)
TsDigits == {"0", "5", "8"}

\* A unit of one or two digits, and a fraction of one to three digits.
TsUnits == {<<a>> : a \in TsDigits} \cup {<<a, b>> : a, b \in TsDigits}
TsFractions ==
  TsUnits \cup {<<a, b, c>> : a, b, c \in TsDigits}

\* The timestamps of the grammar.
TsMains ==
  TsUnits
    \cup {m \o <<":">> \o sec : m, sec \in TsUnits}
    \cup {h \o <<":">> \o m \o <<":">> \o sec : h, m, sec \in TsUnits}
TsInputs == TsMains \cup {main \o <<".">> \o f : main \in TsMains, f \in TsFractions}

TsIdle == tsIn = <<>> /\ tsOut = <<>> /\ tsAgain = <<>> /\ tsPc = "idle"

TsInit ==
  /\ tsIn \in TsInputs
  /\ tsOut = <<>>
  /\ tsAgain = <<>>
  /\ tsPc = "input"

\* The call of index.js 345 on one side of a cue timing line.
TsCall ==
  /\ tsPc = "input"
  /\ tsOut' = normalizeTimestamp(tsIn)
  /\ tsPc' = "normalized"
  /\ UNCHANGED <<tsIn, tsAgain>>
  /\ UNCHANGED notTs

\* The same call on a timestamp the converter has produced.
TsCallAgain ==
  /\ tsPc = "normalized"
  /\ tsAgain' = normalizeTimestamp(tsOut)
  /\ tsPc' = "renormalized"
  /\ UNCHANGED <<tsIn, tsOut>>
  /\ UNCHANGED notTs

(***************************************************************************)
(* Vocabulary of the claims about timestamps.                              *)
(***************************************************************************)
IsDigit(c) == c \in {"0", "1", "2", "3", "4", "5", "6", "7", "8", "9"}
DigitValue(c) == CHOOSE d \in 0..9 : Digit(d) = c

\* The number a string of digits denotes.
RECURSIVE NumberOf(_)
NumberOf(ds) ==
  IF ds = <<>> THEN 0
  ELSE 10 * NumberOf(SubSeq(ds, 1, Len(ds) - 1)) + DigitValue(ds[Len(ds)])

\* The digits at the front of a string.
RECURSIVE leadingDigits(_)
leadingDigits(line) ==
  IF line # <<>> /\ IsDigit(Head(line))
  THEN <<Head(line)>> \o leadingDigits(Tail(line)) ELSE <<>>

\* The fixed form HH:MM:SS,mmm.
IsFixedForm(s) ==
  /\ Len(s) = 12
  /\ s[3] = ":" /\ s[6] = ":" /\ s[9] = ","
  /\ \A k \in {1, 2, 4, 5, 7, 8, 10, 11, 12} : IsDigit(s[k])

\* The instant, in milliseconds, of a timestamp in fixed form.
InstantOfFixed(s) ==
  3600000 * NumberOf(SubSeq(s, 1, 2)) + 60000 * NumberOf(SubSeq(s, 4, 5))
    + 1000 * NumberOf(SubSeq(s, 7, 8)) + NumberOf(SubSeq(s, 10, 12))

\* The milliseconds a fraction of one to three digits denotes.
FractionMillis(f) ==
  CASE Len(f) = 1 -> 100 * NumberOf(f)
    [] Len(f) = 2 -> 10 * NumberOf(f)
    [] Len(f) = 3 -> NumberOf(f)

\* The instant, in milliseconds, of a timestamp of the grammar: the units
\* are read from the right, seconds first.
InstantOfGrammar(ts) ==
  LET dot == {k \in 1..Len(ts) : ts[k] = "."}
      main == IF dot = {} THEN ts ELSE SubSeq(ts, 1, Min(dot) - 1)
      frac == IF dot = {} THEN <<>> ELSE SubSeq(ts, Min(dot) + 1, Len(ts))
      colons == {k \in 1..Len(main) : main[k] = ":"}
      n == Cardinality(colons)
      Max(S) == CHOOSE x \in S : \A y \in S : x >= y
      last == IF n = 0 THEN 0 ELSE Max(colons)
      first == IF n = 0 THEN 0 ELSE Min(colons)
      secs == NumberOf(SubSeq(main, last + 1, Len(main)))
      mins == IF n = 0 THEN 0
              ELSE IF n = 1 THEN NumberOf(SubSeq(main, 1, last - 1))
              ELSE NumberOf(SubSeq(main, first + 1, last - 1))
      hours == IF n = 2 THEN NumberOf(SubSeq(main, 1, first - 1)) ELSE 0
  IN 3600000 * hours + 60000 * mins + 1000 * secs
       + (IF frac = <<>> THEN 0 ELSE FractionMillis(frac))

Str_0_05_500 == <<"0", ":", "0", "5", ".", "5", "0", "0">>
Str_0_08 == <<"0", ":", "0", "8">>
Str_00_00_05_500 == <<"0", "0", ":", "0", "0", ":", "0", "5", ",", "5", "0", "0">>
Str_00_00_08_000 == <<"0", "0", ":", "0", "0", ":", "0", "8", ",", "0", "0", "0">>

\* C11: every timestamp of the grammar is normalized to the fixed form
\* HH:MM:SS,mmm of the same instant; 0:05.500 becomes 00:00:05,500 and
\* 0:08 becomes 00:00:08,000.
C11_NormalizedSameInstant ==
  tsPc # "input" =>
    /\ IsFixedForm(tsOut)
    /\ InstantOfFixed(tsOut) = InstantOfGrammar(tsIn)
    /\ tsIn = Str_0_05_500 => tsOut = Str_00_00_05_500
    /\ tsIn = Str_0_08 => tsOut = Str_00_00_08_000

\* A timestamp with one one-digit unit and a one-digit fraction has been
\* normalized: 5.5 to 00:00:05,500.
C11_Witness ==
  /\ tsPc = "normalized"
  /\ tsIn = <<"5", ".", "5">>
  /\ tsOut = Str_00_00_05_500

\* C12: normalizing a timestamp that is already in the fixed form returns
\* it unchanged.
C12_IdempotentOnFormat ==
  tsPc = "renormalized" => tsAgain = tsOut

\* A timestamp of the grammar [[HH:]MM:]SS[.mmm], by its shape.
IsGrammarStamp(ts) ==
  LET dot == {k \in 1..Len(ts) : ts[k] = "."}
      main == IF dot = {} THEN ts ELSE SubSeq(ts, 1, Min(dot) - 1)
      frac == IF dot = {} THEN <<>> ELSE SubSeq(ts, Min(dot) + 1, Len(ts))
      units == split(main, <<":">>)
  IN /\ Cardinality(dot) <= 1
     /\ dot # {} => (Len(frac) \in 1..3 /\ \A k \in 1..Len(frac) : IsDigit(frac[k]))
     /\ Len(units) \in 1..3
     /\ \A u \in 1..Len(units) :
          /\ Len(units[u]) \in 1..2
          /\ \A k \in 1..Len(units[u]) : IsDigit(units[u][k])

\* The blocks that become records, in payload order, and the two sides of
\* the timing line of a block.
KeptBlocks ==
  LET kept == {k \in 1..Len(InputBlocks) : k \notin DroppedBlocks}
      RECURSIVE inOrder(_)
      inOrder(k) ==
        IF k > Len(InputBlocks) THEN <<>>
        ELSE (IF k \in kept THEN <<InputBlocks[k]>> ELSE <<>>) \o inOrder(k + 1)
  IN inOrder(1)
TimingOf(block) == split(split(trim(block), <<"\n">>)[1], Str_arrow)

\* The timing of every cue of the payload, in order: whether its timing
\* line is `start --> end` of grammar timestamps, and their instants.
CueTimes ==
  LET kept == KeptBlocks
  IN [k \in 1..Len(kept) |->
        LET timing == TimingOf(kept[k])
            ok == /\ Len(timing) = 2
                  /\ IsGrammarStamp(timing[1])
                  /\ IsGrammarStamp(timing[2])
        IN [ok |-> ok,
            start |-> IF ok THEN InstantOfGrammar(timing[1]) ELSE 0,
            end |-> IF ok THEN InstantOfGrammar(timing[2]) ELSE 0]]

\* Every cue of the payload has a timing line `start --> end` of grammar
\* timestamps with start <= end, and the cues come in non-decreasing
\* start order.
WellOrdered(cues) ==
  /\ \A k \in 1..Len(cues) : cues[k].ok /\ cues[k].start <= cues[k].end
  /\ \A k \in 1..(Len(cues) - 1) : cues[k].start <= cues[k + 1].start
CuesWellOrdered == WellOrdered(CueTimes)

\* C13, as claimed: in every record sequence that is produced, each
\* record has start <= end and the starts never decrease along the
\* sequence (compared where both timestamps have the fixed form).
C13_RecordsOrdered ==
  vPc = "converted" =>
    /\ \A n \in 1..Len(vRecords) :
         (IsFixedForm(vRecords[n].start) /\ IsFixedForm(vRecords[n].end)) =>
           InstantOfFixed(vRecords[n].start) <= InstantOfFixed(vRecords[n].end)
    /\ \A n \in 1..(Len(vRecords) - 1) :
         (IsFixedForm(vRecords[n].start) /\ IsFixedForm(vRecords[n + 1].start)) =>
           InstantOfFixed(vRecords[n].start) <= InstantOfFixed(vRecords[n + 1].start)

\* C13, amended: the records keep the order and the instants of the cues
\* of the payload; when the cues are well formed, each with start <= end,
\* and in non-decreasing start order, every record has start <= end in
\* fixed form and the starts never decrease.
C13_OrderOfCuesKept ==
  vPc = "converted" =>
    LET cues == CueTimes
    IN WellOrdered(cues) =>
         /\ Len(vRecords) = Len(cues)
         /\ \A n \in 1..Len(vRecords) :
              /\ IsFixedForm(vRecords[n].start) /\ IsFixedForm(vRecords[n].end)
              /\ InstantOfFixed(vRecords[n].start) = cues[n].start
              /\ InstantOfFixed(vRecords[n].end) = cues[n].end
              /\ InstantOfFixed(vRecords[n].start) <= InstantOfFixed(vRecords[n].end)
         /\ \A n \in 1..(Len(vRecords) - 1) :
              InstantOfFixed(vRecords[n].start) <= InstantOfFixed(vRecords[n + 1].start)

\* The cue at 5.5 s and then the cue at 1:02:03.5 have been converted to
\* two records.
C13_Witness ==
  /\ vPc = "converted"
  /\ CuesWellOrdered
  /\ Len(vRecords) = 2
  /\ InstantOfFixed(vRecords[1].start) = 5500
  /\ InstantOfFixed(vRecords[2].start) = 3723500

(***************************************************************************)
(* Spec: downloadTranscripts (index.js 423-489) and processLecture         *)
(* (index.js 492-646) on a resolved course.                                *)
(***************************************************************************)
MaxRunRecords == 2   \* longest curriculum listing of a run
MaxTabs == 2         \* largest lane count of a run

Str_en_US == <<"e", "n", "_", "U", "S">>
Str_es_ES == <<"e", "s", "_", "E", "S">>
Str_url == <<"u">>

\* The answers index.js 57-62 can give: the default and another locale.
Languages == {Str_en_US, Str_es_ES}

CaptionedAsset(locale) ==
  Some([asset_type |-> Some(Str_Video), time_estimation |-> 90,
        captions |-> Some(<<[locale_id |-> locale, url |-> Some(Str_url)]>>)])

\* The records of a run: chapters and video lectures without captions and
\* with one caption track.
RunKinds ==
  {[class |-> "chapter", asset |-> Null],
   [class |-> "lecture", asset |-> VideoAsset],
   [class |-> "lecture", asset |-> CaptionedAsset(Str_en_US)]}

\* The listings of a run, as the source emits them: sort_order falls from
\* the first record of the course to the last.
runListing(kinds) ==
  [n \in 1..Len(kinds) |->
     [id |-> n, class |-> kinds[n].class, title |-> Str_T,
      created |-> Str_created, asset |-> kinds[n].asset,
      sort_order |-> Len(kinds) - n + 1]]

\* A selector list of seven entries.
transcriptButtonSelectors_seven == 1..7

\* The selector list of index.js 522-529, by position.
transcriptButtonSelectors == 1..6

\* A text loop of four passes.
maxRetries_four == 3 + 1

\* index.js 586
maxRetries == 3

\* What the panel can hold: nothing, blanks only, or text.
PanelTexts == {<<>>, <<" ">>, <<"H", "i">>}

\* A test that takes every text for a transcript.
hasText_any(text) == TRUE

\* transcriptText && transcriptText.trim() !== '' (index.js 594, 603)
hasText(text) == text # <<>> /\ trim(text) # <<>>

\* The names bound where the body of processLecture is evaluated: its
\* parameters (index.js 492), its locals and the names of the module scope
\* (index.js 1-22 and the function declarations).
processLectureScope ==
  {"page", "courseUrl", "lecture", "chapter", "downloadSrt",
   "lectureUrl", "filename", "sanitizedFilename",
   "transcriptButtonSelectors", "transcriptButtonFound", "transcriptText",
   "retries", "maxRetries", "fileContent",
   "puppeteer", "puppeteerExtra", "StealthPlugin", "fs", "path", "readline",
   "dotenv", "rl", "outputDir", "main", "processCourseStructure",
   "normalizeTimestamp", "convertVttToSrt", "generateContentsFile",
   "extractLectureUrls", "downloadTranscripts", "processLecture"}

\* The flattening of index.js 455-462.
RECURSIVE flattenChapters(_, _)
flattenChapters(chapters, k) ==
  IF k > Len(chapters) THEN <<>>
  ELSE [p \in 1..Len(chapters[k].lectures) |->
          [lecture |-> chapters[k].lectures[p],
           chapter |-> Some([id |-> chapters[k].id, title |-> chapters[k].title,
                             index |-> chapters[k].index])]]
       \o flattenChapters(chapters, k + 1)

\* A flattening that puts the standalone lectures in front.
flatten_standaloneFirst(structure) ==
  [p \in 1..Len(structure.lectures) |->
     [lecture |-> structure.lectures[p], chapter |-> Null]]
    \o flattenChapters(structure.chapters, 1)

flatten(structure) ==
  flattenChapters(structure.chapters, 1)
    \o [p \in 1..Len(structure.lectures) |->
          [lecture |-> structure.lectures[p], chapter |-> Null]]

\* The name of index.js 494-496, by its parts, and the two output paths.
filename(lecture, chapter) ==
  IF chapter # Null
  THEN [chapter |-> Some(Val(chapter).index), lecture |-> lecture.lectureIndex]
  ELSE [chapter |-> Null, lecture |-> lecture.lectureIndex]

\* String.prototype.replace with the character class of index.js 499.
sanitize(s) ==
  [k \in 1..Len(s) |->
     IF s[k] \in {"/", "\\", "?", "%", "*", ":", "|", "\"", "<", ">"} THEN "-"
     ELSE s[k]]

\* A name that leaves the chapter ordinal out.
filenameText_noChapter(lecture, chapter) ==
  numberToString(lecture.lectureIndex) \o <<".", " ">> \o lecture.title

\* The template strings of index.js 494-496.
filenameText(lecture, chapter) ==
  IF chapter # Null
  THEN numberToString(Val(chapter).index) \o <<".">>
         \o numberToString(lecture.lectureIndex) \o <<" ">> \o lecture.title
  ELSE numberToString(lecture.lectureIndex) \o <<".", " ">> \o lecture.title

\* index.js 499.  The paths of index.js 572, 610 and 628 are this name
\* below outputDir, followed by .txt or .srt.
sanitizedFilename(lecture, chapter) == sanitize(filenameText(lecture, chapter))

txtPath(item) == [name |-> filename(item.lecture, item.chapter), ext |-> "txt"]
srtPath(item) == [name |-> filename(item.lecture, item.chapter), ext |-> "srt"]

\* fs.writeFileSync: the content replaces what the path held.
writeFile(fs, path, content) ==
  IF path \in DOMAIN fs THEN [fs EXCEPT ![path] = Append(@, content)]
  ELSE fs @@ (path :> <<content>>)

Lanes == DOMAIN chunks
LectureIds == {allLectures[n].lecture.id : n \in 1..Len(allLectures)}

RunIdle ==
  /\ courseStructure = EmptyStructure /\ downloadSrt = FALSE /\ tabCount = 1
  /\ preferredLanguage = Str_en_US
  /\ mainPc = "idle" /\ allLectures = <<>> /\ chunks = <<>>
  /\ lanePc = <<>> /\ laneI = <<>> /\ sel = <<>>
  /\ transcriptButtonFound = <<>> /\ lastTry = <<>>
  /\ retries = <<>>
  /\ callers = <<>> /\ exit = <<>> /\ files = <<>>
  /\ page = <<>> /\ openPages = {} /\ browser = "open"

\* main has resolved the course (index.js 248) and is about to call
\* downloadTranscripts (index.js 257).
RunInit ==
  /\ \E kinds \in SeqUpTo(RunKinds, MaxRunRecords) :
       courseStructure = processCourseStructure(runListing(kinds))
  /\ downloadSrt \in BOOLEAN
  /\ preferredLanguage \in Languages
  /\ tabCount \in 1..MaxTabs
  /\ mainPc = "call"
  /\ allLectures = <<>> /\ chunks = <<>>
  /\ lanePc = <<>> /\ laneI = <<>> /\ sel = <<>>
  /\ transcriptButtonFound = <<>> /\ lastTry = <<>>
  /\ retries = <<>>
  /\ callers = <<>> /\ exit = <<>> /\ files = <<>>
  /\ page = <<>> /\ openPages = {} /\ browser = "open"

\* A lane that iterates over the whole work list.
laneItems_whole(all, chs, tabIndex) == all

\* The work list of the lane tabIndex: its chunk (index.js 477).
laneItems(all, chs, tabIndex) == chs[tabIndex]

\* index.js 424-477: flatten, partition, and start one callback per chunk;
\* each runs up to its first await, browser.newPage().
FanOut ==
  /\ mainPc = "call"
  /\ LET all == flatten(courseStructure)
         chs == chunkArray(all, tabCount)
     IN /\ allLectures' = all
        /\ chunks' = [j \in DOMAIN chs |-> laneItems(all, chs, j)]
        /\ lanePc' = [j \in DOMAIN chs |-> "newPage"]
        /\ laneI' = [j \in DOMAIN chs |-> 0]
        /\ sel' = [j \in DOMAIN chs |-> 0]
        /\ transcriptButtonFound' = [j \in DOMAIN chs |-> FALSE]
        /\ lastTry' = [j \in DOMAIN chs |-> "none"]
        /\ retries' = [j \in DOMAIN chs |-> 0]
        /\ callers' = [id \in {all[n].lecture.id : n \in 1..Len(all)} |-> <<>>]
        /\ exit' = [id \in {all[n].lecture.id : n \in 1..Len(all)} |-> "none"]
        /\ page' = [j \in DOMAIN chs |-> Null]
  /\ mainPc' = "awaitAll"
  /\ UNCHANGED <<courseStructure, downloadSrt, preferredLanguage, tabCount,
                 openPages, browser, files>>
  /\ UNCHANGED notRun

\* A loop that walks its chunk from the last item to the first.
itemAt_fromEnd(chunk, i) == chunk[Len(chunk) - i]

\* chunk[i] of index.js 482 (i counts from 0).
itemAt(chunk, i) == chunk[i + 1]

\* A callback that uses one page for all lanes.
newPage_shared(tabIndex) == 0

\* The page that the call of browser.newPage() of the lane tabIndex
\* creates (index.js 478): every call creates a page of its own.
newPage(tabIndex) == tabIndex

\* The work item a lane is at, chunk[i].
current(j) == itemAt(chunks[j], laneI[j])
currentId(j) == current(j).lecture.id

\* The marker of index.js 575.
Str_noTranscript ==
  <<"[", "N", "o", " ", "t", "r", "a", "n", "s", "c", "r", "i", "p", "t",
    " ", "a", "v", "a", "i", "l", "a", "b", "l", "e", " ", "o", "r", " ",
    "c", "o", "u", "l", "d", " ", "n", "o", "t", " ", "b", "e", " ", "a",
    "c", "c", "e", "s", "s", "e", "d", "]">>

\* A placeholder branch that writes nothing.
writePlaceholder_nothing(fs, item) == fs

\* index.js 574-575: `# ${sanitizedFilename}\n\n[No transcript ...]`.
writePlaceholder(fs, item) ==
  writeFile(fs, txtPath(item),
            [title |-> filename(item.lecture, item.chapter),
             body |-> Str_noTranscript])

\* index.js 609-612: `# ${sanitizedFilename}\n\n${transcriptText}`.
writeTranscript(fs, item, text) ==
  writeFile(fs, txtPath(item),
            [title |-> filename(item.lecture, item.chapter), body |-> text])

(***************************************************************************)
(* SpecNames: the output paths of the work items of every bounded listing  *)
(* of chapters and titled video lectures.                                  *)
(***************************************************************************)
MaxNameRecords == 4

\* Titles that differ, titles that differ only in characters the
\* sanitizing replaces, and titles that begin like an ordinal.
NameTitles == {<<"A">>, <<"A", ":">>, <<"A", "/">>, <<"1", " ", "A">>}

NameKinds ==
  {[class |-> "chapter", title |-> <<"A">>, asset |-> Null]}
    \cup {[class |-> "lecture", title |-> t, asset |-> VideoAsset] : t \in NameTitles}

namesListing(kinds) ==
  [n \in 1..Len(kinds) |->
     [id |-> n, class |-> kinds[n].class, title |-> kinds[n].title,
      created |-> Str_created, asset |-> kinds[n].asset,
      sort_order |-> Len(kinds) - n + 1]]

Str_txt == <<".", "t", "x", "t">>
Str_srt == <<".", "s", "r", "t">>

\* ` [${preferredLanguage}].srt` (index.js 628)
srtSuffix(language) == <<" ", "[">> \o language \o <<"]">> \o Str_srt

NamesIdle == nResults = <<>> /\ nWork = <<>> /\ nNames = <<>> /\ nPc = "idle"

NamesInit ==
  /\ \E kinds \in SeqUpTo(NameKinds, MaxNameRecords) : nResults = namesListing(kinds)
  /\ nWork = <<>>
  /\ nNames = <<>>
  /\ nPc = "input"

\* index.js 248 and 455-462, and for every work item the name that the
\* call of processLecture on it computes (index.js 494-499).
NamesCall ==
  /\ nPc = "input"
  /\ LET all == flatten(processCourseStructure(nResults))
     IN /\ nWork' = all
        /\ nNames' = [n \in 1..Len(all) |->
                        sanitizedFilename(all[n].lecture, all[n].chapter)]
  /\ nPc' = "named"
  /\ UNCHANGED nResults
  /\ UNCHANGED notNames

\* C14: distinct work items of one resolved structure have distinct
\* sanitized names, hence distinct transcript paths and distinct subtitle
\* paths, and no transcript path is the subtitle path of another item: no
\* two calls of processLecture write the same file.
C14_DistinctPaths ==
  nPc = "named" =>
    \A a, b \in 1..Len(nWork) :
      a # b =>
        /\ nNames[a] # nNames[b]
        /\ nNames[a] \o Str_txt # nNames[b] \o Str_txt
        /\ \A la, lb \in Languages :
             /\ nNames[a] \o srtSuffix(la) # nNames[b] \o srtSuffix(lb)
             /\ nNames[a] \o Str_txt # nNames[b] \o srtSuffix(lb)

\* A standalone lecture and the first lecture of the first chapter, both
\* with ordinal 1, whose titles the sanitizing makes equal, and a second
\* lecture of that chapter with the same sanitized title.
C14_Witness ==
  /\ nPc = "named"
  /\ Len(nWork) = 3
  /\ nWork[1].chapter # Null /\ nWork[2].chapter # Null /\ nWork[3].chapter = Null
  /\ nWork[1].lecture.lectureIndex = 1 /\ nWork[3].lecture.lectureIndex = 1
  /\ nWork[1].lecture.title # nWork[2].lecture.title
  /\ sanitize(nWork[1].lecture.title) = sanitize(nWork[2].lecture.title)
  /\ sanitize(nWork[1].lecture.title) = sanitize(nWork[3].lecture.title)

(***************************************************************************)
(* The actions of a lane.  An async function runs without interruption     *)
(* from one await to the next, so there is one action per await of the     *)
(* lane callback (index.js 477-488) and of processLecture; consecutive     *)
(* awaits between which nothing is decided are taken together.             *)
(***************************************************************************)
\* index.js 478-483: browser.newPage() has resolved; the loop starts and,
\* when the chunk is not empty, calls processLecture on chunk[0], which
\* runs up to its page.goto (index.js 493-505).
NewPage(j) ==
  /\ lanePc[j] = "newPage"
  /\ browser = "open"
  /\ page' = [page EXCEPT ![j] = Some(newPage(j))]
  /\ openPages' = openPages \cup {newPage(j)}
  /\ IF Len(chunks[j]) > 0
     THEN /\ callers' = [callers EXCEPT
                           ![itemAt(chunks[j], 0).lecture.id] = Append(@, j)]
          /\ lanePc' = [lanePc EXCEPT ![j] = "goto"]
     ELSE /\ lanePc' = [lanePc EXCEPT ![j] = "closing"]
          /\ UNCHANGED callers
  /\ UNCHANGED <<courseStructure, downloadSrt, preferredLanguage, tabCount,
                 mainPc, allLectures, chunks, laneI, sel, transcriptButtonFound, lastTry, retries,
                 exit, browser, files>>
  /\ UNCHANGED notRun

\* A processLecture whose catch throws the error on: the callback of the
\* lane rejects at the failed item.
Leave_abort(j, where) ==
  /\ exit' = [exit EXCEPT ![currentId(j)] = where]
  /\ IF where = "catch"
     THEN /\ lanePc' = [lanePc EXCEPT ![j] = "rejected"]
          /\ UNCHANGED <<laneI, callers>>
     ELSE /\ laneI' = [laneI EXCEPT ![j] = @ + 1]
          /\ IF laneI[j] + 1 < Len(chunks[j])
             THEN /\ callers' = [callers EXCEPT
                                   ![itemAt(chunks[j], laneI[j] + 1).lecture.id] =
                                      Append(@, j)]
                  /\ lanePc' = [lanePc EXCEPT ![j] = "goto"]
             ELSE /\ lanePc' = [lanePc EXCEPT ![j] = "closing"]
                  /\ UNCHANGED callers
  /\ sel' = [sel EXCEPT ![j] = 0]
  /\ transcriptButtonFound' = [transcriptButtonFound EXCEPT ![j] = FALSE]
  /\ lastTry' = [lastTry EXCEPT ![j] = "none"]
  /\ retries' = [retries EXCEPT ![j] = 0]

\* processLecture is left at the place `where` and its locals are gone;
\* the loop of the lane does i++ and calls processLecture on the next item
\* of the chunk, or goes on to page.close() (index.js 481-486).
Leave(j, where) ==
  /\ exit' = [exit EXCEPT ![currentId(j)] = where]
  /\ laneI' = [laneI EXCEPT ![j] = @ + 1]
  /\ IF laneI[j] + 1 < Len(chunks[j])
     THEN /\ callers' = [callers EXCEPT
                           ![itemAt(chunks[j], laneI[j] + 1).lecture.id] =
                              Append(@, j)]
          /\ lanePc' = [lanePc EXCEPT ![j] = "goto"]
     ELSE /\ lanePc' = [lanePc EXCEPT ![j] = "closing"]
          /\ UNCHANGED callers
  /\ sel' = [sel EXCEPT ![j] = 0]
  /\ transcriptButtonFound' = [transcriptButtonFound EXCEPT ![j] = FALSE]
  /\ lastTry' = [lastTry EXCEPT ![j] = "none"]
  /\ retries' = [retries EXCEPT ![j] = 0]

\* index.js 505-533: the navigation resolves, then the wait for the player
\* (whose failure is swallowed) and the settle delay, and the selector loop
\* starts; or the navigation rejects and the catch of 643 is run.
Goto(j) ==
  /\ lanePc[j] = "goto"
  /\ \E loaded \in BOOLEAN :
       /\ loaded => browser = "open"
       /\ IF loaded
          THEN /\ lanePc' = [lanePc EXCEPT ![j] = "chain"]
               /\ sel' = [sel EXCEPT ![j] = 1]
               /\ UNCHANGED <<laneI, transcriptButtonFound, lastTry, retries,
                              callers, exit>>
          ELSE Leave(j, "catch")
  /\ UNCHANGED <<courseStructure, downloadSrt, preferredLanguage, tabCount,
                 mainPc, allLectures, chunks, page, openPages, browser, files>>
  /\ UNCHANGED notRun

\* A selector loop that stops at the first element it has clicked.
chainBreaks_atFirstClick(outcome) ==
  outcome \in {"checkThrows", "hidden", "visible"}

\* index.js 557-560: the selector loop is left when the panel is visible.
chainBreaks(outcome) == outcome = "visible"

\* What one pass of the selector loop can meet (index.js 534-568): the
\* existence query throws, finds nothing, or finds the element; then the
\* click throws or is issued; then the visibility query throws, or reports
\* the panel hidden or visible.
TryOutcomes == {"evalThrows", "absent", "clickThrows", "checkThrows",
                "hidden", "visible"}

\* What a pass did on the page: it issued no click, it clicked without
\* seeing the panel visible, or it clicked and saw the panel visible.
passOf(outcome) ==
  CASE outcome \in {"evalThrows", "absent", "clickThrows"} -> "noClick"
    [] outcome \in {"checkThrows", "hidden"} -> "clicked"
    [] outcome = "visible" -> "visible"

\* One pass of the loop of index.js 533-569 with the selector sel[j], and
\* when the loop ends with it, index.js 571-581: without a visible panel
\* the placeholder is written and processLecture returns; else the delay
\* in front of the text loop starts.
TrySelector(j) ==
  /\ lanePc[j] = "chain"
  /\ \E outcome \in TryOutcomes :
       LET found == (outcome = "visible")
       IN /\ browser # "open" => outcome = "evalThrows"
          /\ IF chainBreaks(outcome) \/ sel[j] + 1 \notin transcriptButtonSelectors
             THEN IF ~found
                  THEN /\ files' = writePlaceholder(files, current(j))
                       /\ Leave(j, "ret577")
                  ELSE /\ lanePc' = [lanePc EXCEPT ![j] = "read"]
                       /\ sel' = [sel EXCEPT ![j] = 0]
                       /\ transcriptButtonFound' =
                            [transcriptButtonFound EXCEPT ![j] = found]
                       /\ lastTry' = [lastTry EXCEPT ![j] = passOf(outcome)]
                       /\ UNCHANGED <<laneI, retries, callers, exit, files>>
             ELSE /\ lanePc' = [lanePc EXCEPT ![j] = "chain"]
                  /\ sel' = [sel EXCEPT ![j] = @ + 1]
                  /\ transcriptButtonFound' =
                       [transcriptButtonFound EXCEPT ![j] = found]
                  /\ lastTry' = [lastTry EXCEPT ![j] = passOf(outcome)]
                  /\ UNCHANGED <<laneI, retries, callers, exit, files>>
  /\ UNCHANGED <<courseStructure, downloadSrt, preferredLanguage, tabCount,
                 mainPc, allLectures, chunks, page, openPages, browser>>
  /\ UNCHANGED notRun

\* One pass of the loop of index.js 588-601, and when the loop ends with
\* it, index.js 603-615.  The read throws, or returns the text of the
\* panel: text ends the loop, the transcript file is written and the delay
\* of 615 starts; a blank read is counted, and the third one makes
\* processLecture return at 605.  transcriptText is assigned and used
\* within this one step.
ReadText(j) ==
  /\ lanePc[j] = "read"
  /\ \E threw \in BOOLEAN, transcriptText \in PanelTexts :
       /\ browser # "open" => threw
       /\ IF threw
          THEN /\ transcriptText = <<>>
               /\ Leave(j, "catch")
               /\ UNCHANGED files
          ELSE IF hasText(transcriptText)
          THEN /\ files' = writeTranscript(files, current(j), transcriptText)
               /\ lanePc' = [lanePc EXCEPT ![j] = "captions"]
               /\ UNCHANGED <<laneI, sel, transcriptButtonFound, lastTry, retries,
                              callers, exit>>
          ELSE IF retries[j] + 1 < maxRetries
          THEN /\ retries' = [retries EXCEPT ![j] = @ + 1]
               /\ UNCHANGED <<lanePc, laneI, sel, transcriptButtonFound, lastTry,
                              callers, exit, files>>
          ELSE /\ Leave(j, "ret605")
               /\ UNCHANGED files
  /\ UNCHANGED <<courseStructure, downloadSrt, preferredLanguage, tabCount,
                 mainPc, allLectures, chunks, page, openPages, browser>>
  /\ UNCHANGED notRun

\* lecture.captions.find(caption => caption.locale_id === preferredLanguage)
RECURSIVE find(_, _)
find(captions, locale) ==
  IF captions = <<>> THEN Null
  ELSE IF Head(captions).locale_id = locale THEN Some(Head(captions))
       ELSE find(Tail(captions), locale)

\* The payloads a caption fetch can return.
FetchedVtt == {Str_WEBVTT \o <<"\n", "\n">> \o Str_cueA}

\* index.js 617-642.  The callback of find reads preferredLanguage, which
\* is looked up in the scope of processLecture when the callback runs on
\* the first caption: unbound there, the read throws a ReferenceError that
\* the catch of 643 receives.
Captions(j) ==
  /\ lanePc[j] = "captions"
  /\ LET lecture == current(j).lecture
     IN IF downloadSrt /\ lecture.captions # Null
           /\ Len(Val(lecture.captions)) > 0
        THEN IF "preferredLanguage" \notin processLectureScope
             THEN /\ Leave(j, "catch")
                  /\ UNCHANGED files
             ELSE LET matchingCaption ==
                        find(Val(lecture.captions), preferredLanguage)
                  IN IF matchingCaption # Null
                     THEN \E fetched \in BOOLEAN, vtt \in FetchedVtt :
                            /\ fetched => browser = "open"
                            /\ files' =
                                 IF fetched
                                 THEN writeFile(files, srtPath(current(j)),
                                        [title |-> filename(current(j).lecture,
                                                            current(j).chapter),
                                         body |-> convertVttToSrt(vtt)])
                                 ELSE files
                            /\ Leave(j, "end642")
                     ELSE /\ Leave(j, "end642")
                          /\ UNCHANGED files
        ELSE /\ Leave(j, "end642")
             /\ UNCHANGED files
  /\ UNCHANGED <<courseStructure, downloadSrt, preferredLanguage, tabCount,
                 mainPc, allLectures, chunks, page, openPages, browser>>
  /\ UNCHANGED notRun

\* index.js 486-487: page.close() has resolved and the callback returns.
ClosePage(j) ==
  /\ lanePc[j] = "closing"
  /\ browser = "open"
  /\ openPages' = openPages \ {Val(page[j])}
  /\ lanePc' = [lanePc EXCEPT ![j] = "closed"]
  /\ UNCHANGED <<courseStructure, downloadSrt, preferredLanguage, tabCount,
                 mainPc, allLectures, chunks, laneI, sel, transcriptButtonFound, lastTry, retries,
                 callers, exit, page, browser, files>>
  /\ UNCHANGED notRun

\* index.js 477-488 and 257-263: Promise.all resolves when every callback
\* has returned, downloadTranscripts returns to main, which reports
\* success and, in its finally, calls browser.close().
JoinAll ==
  /\ mainPc = "awaitAll"
  /\ \A j \in Lanes : lanePc[j] = "closed"
  /\ mainPc' = "returned"
  /\ browser' = "closing"
  /\ UNCHANGED <<courseStructure, downloadSrt, preferredLanguage, tabCount,
                 allLectures, chunks,
                 laneVars, callers, exit, page, openPages, files>>
  /\ UNCHANGED notRun

\* index.js 264-265: browser.close() has resolved; every page of the
\* browser is gone with it.
BrowserClose ==
  /\ browser = "closing"
  /\ browser' = "closed"
  /\ openPages' = {}
  /\ UNCHANGED <<courseStructure, downloadSrt, preferredLanguage, tabCount,
                 mainPc, allLectures, chunks,
                 laneVars, callers, exit, page, files>>
  /\ UNCHANGED notRun

\* The number of lectures in the chapters in front of chapter k.
RECURSIVE LecturesBefore(_, _)
LecturesBefore(chapters, k) ==
  IF k <= 1 THEN 0
  ELSE LecturesBefore(chapters, k - 1) + Len(chapters[k - 1].lectures)

\* C28: the work list holds, for every chapter in chapter order, the
\* lectures of the chapter in their order, each paired with the chapter,
\* and behind them the standalone lectures in their order, paired with no
\* chapter; it holds nothing else, and every lecture of the structure
\* once.
C28_WorkListIsStructure ==
  nPc = "named" =>
    LET structure == processCourseStructure(nResults)
        chapters == structure.chapters
        inChapters == LecturesBefore(chapters, Len(chapters) + 1)
    IN /\ Len(nWork) = inChapters + Len(structure.lectures)
       /\ \A k \in 1..Len(chapters) :
            \A p \in 1..Len(chapters[k].lectures) :
              LET item == nWork[LecturesBefore(chapters, k) + p]
              IN /\ item.lecture = chapters[k].lectures[p]
                 /\ item.chapter # Null
                 /\ Val(item.chapter).id = chapters[k].id
                 /\ Val(item.chapter).index = chapters[k].index
                 /\ Val(item.chapter).title = chapters[k].title
       /\ \A p \in 1..Len(structure.lectures) :
            /\ nWork[inChapters + p].lecture = structure.lectures[p]
            /\ nWork[inChapters + p].chapter = Null
       /\ \A a, b \in 1..Len(nWork) :
            a # b => nWork[a].lecture.id # nWork[b].lecture.id

\* A course with a lecture in front of its first chapter and two lectures
\* in the chapter: the work list has the two lectures of the chapter
\* first, and the standalone lecture last.
C28_Witness ==
  /\ nPc = "named"
  /\ Len(nWork) = 3
  /\ nWork[1].chapter # Null /\ nWork[2].chapter # Null
  /\ nWork[3].chapter = Null
  /\ nWork[3].lecture.id = 1

(***************************************************************************)
(* SpecFaults: the run in an environment where opening and closing a tab   *)
(* and writing a file can fail as well.                                    *)
(***************************************************************************)
\* The records of a run with faults: video lectures with one caption
\* track, which are processed like lectures without captions when no
\* subtitles are requested.
FaultKinds == {[class |-> "lecture", asset |-> CaptionedAsset(Str_en_US)]}

FaultInit ==
  /\ \E kinds \in SeqUpTo(FaultKinds, MaxRunRecords) :
       courseStructure = processCourseStructure(runListing(kinds))
  /\ downloadSrt \in BOOLEAN
  /\ preferredLanguage = Str_en_US
  /\ tabCount \in 1..MaxTabs
  /\ mainPc = "call"
  /\ allLectures = <<>> /\ chunks = <<>>
  /\ lanePc = <<>> /\ laneI = <<>> /\ sel = <<>>
  /\ transcriptButtonFound = <<>> /\ lastTry = <<>>
  /\ retries = <<>>
  /\ callers = <<>> /\ exit = <<>> /\ files = <<>>
  /\ page = <<>> /\ openPages = {} /\ browser = "open"

\* index.js 478: browser.newPage() rejects.  The await is outside every
\* try, so the callback of the lane rejects.
NewPageRejects(j) ==
  /\ lanePc[j] = "newPage"
  /\ lanePc' = [lanePc EXCEPT ![j] = "rejected"]
  /\ UNCHANGED <<courseStructure, downloadSrt, preferredLanguage, tabCount,
                 mainPc, allLectures, chunks, laneI, sel, transcriptButtonFound,
                 lastTry, retries, callers, exit, page, openPages, browser,
                 files>>
  /\ UNCHANGED notRun

\* index.js 486: page.close() rejects, and with it the callback.
ClosePageRejects(j) ==
  /\ lanePc[j] = "closing"
  /\ lanePc' = [lanePc EXCEPT ![j] = "rejected"]
  /\ UNCHANGED <<courseStructure, downloadSrt, preferredLanguage, tabCount,
                 mainPc, allLectures, chunks, laneI, sel, transcriptButtonFound,
                 lastTry, retries, callers, exit, page, openPages, browser,
                 files>>
  /\ UNCHANGED notRun

\* fs.writeFileSync throws.  Both calls that can be reached are inside the
\* try of processLecture: the placeholder write of index.js 574, behind a
\* selector loop that ends without a visible panel, and the transcript
\* write of index.js 612, behind a read that returned text.  The catch of
\* 643 receives the error.
WriteFails(j) ==
  /\ \/ /\ lanePc[j] = "chain"
        /\ \E outcome \in TryOutcomes :
             /\ browser # "open" => outcome = "evalThrows"
             /\ chainBreaks(outcome) \/ sel[j] + 1 \notin transcriptButtonSelectors
             /\ outcome # "visible"
     \/ /\ lanePc[j] = "read"
        /\ browser = "open"
  /\ Leave(j, "catch")
  /\ UNCHANGED <<courseStructure, downloadSrt, preferredLanguage, tabCount,
                 mainPc, allLectures, chunks, page, openPages, browser, files>>
  /\ UNCHANGED notRun

\* index.js 477 and 257-263: Promise.all rejects as soon as one callback
\* has rejected, whatever the other callbacks are doing; the await of 477
\* throws, downloadTranscripts rejects, the catch of main logs the error
\* and its finally calls browser.close().
JoinRejects ==
  /\ mainPc = "awaitAll"
  /\ \E j \in Lanes : lanePc[j] = "rejected"
  /\ mainPc' = "caught"
  /\ browser' = "closing"
  /\ UNCHANGED <<courseStructure, downloadSrt, preferredLanguage, tabCount,
                 allLectures, chunks,
                 laneVars, callers, exit, page, openPages, files>>
  /\ UNCHANGED notRun

(***************************************************************************)
(* Vocabulary of the claims about a run.                                   *)
(***************************************************************************)
WorkItems == {allLectures[n] : n \in 1..Len(allLectures)}

\* The transcript files on disk.
TxtFiles == {p \in DOMAIN files : p.ext = "txt"}

placeholderFile(item) ==
  [title |-> filename(item.lecture, item.chapter), body |-> Str_noTranscript]

\* The lecture has a caption track in the preferred language.
HasMatchingTrack(item) ==
  /\ item.lecture.captions # Null
  /\ \E k \in 1..Len(Val(item.lecture.captions)) :
       Val(item.lecture.captions)[k].locale_id = preferredLanguage

\* A transcript with real text was written for the item.
TranscriptWritten(item) ==
  /\ txtPath(item) \in DOMAIN files
  /\ files[txtPath(item)][1].body # Str_noTranscript

\* C1: after all lanes have finished there is exactly one transcript file
\* per lecture of the work list, and no other transcript file.
C1_OneTranscriptPerLecture ==
  mainPc = "returned" =>
    /\ Cardinality(TxtFiles) = Len(allLectures)
    /\ \A item \in WorkItems :
         /\ txtPath(item) \in DOMAIN files
         /\ Len(files[txtPath(item)]) = 1

\* C3: no work item is ever handed to processLecture twice, and when all
\* lanes have finished every work item has been handed to it once, by the
\* one lane whose chunk holds it.
C3_ExactlyOnce ==
  /\ Cardinality(LectureIds) = Len(allLectures)
  /\ \A id \in LectureIds : Len(callers[id]) <= 1
  /\ mainPc = "returned" =>
       \A item \in WorkItems :
         /\ Len(callers[item.lecture.id]) = 1
         /\ \E k \in 1..Len(chunks[callers[item.lecture.id][1]]) :
              chunks[callers[item.lecture.id][1]][k] = item

\* Two lectures, each processed by a lane of its own, and the run joined.
C3_Witness ==
  /\ mainPc = "returned"
  /\ Len(allLectures) = 2
  /\ callers[allLectures[1].lecture.id] = <<0>>
  /\ callers[allLectures[2].lecture.id] = <<1>>

\* C4: a lecture whose selector loop ends without an observed visible
\* panel (the loop is left, and not towards the text loop) is left by the
\* return of the placeholder branch, not through the catch, with one
\* placeholder file written to its transcript path and no subtitle file;
\* a lecture left there keeps exactly that file.
C4_NoPanelPlaceholder ==
  /\ [](\A item \in WorkItems :
          exit[item.lecture.id] = "ret577" =>
            /\ txtPath(item) \in DOMAIN files
            /\ files[txtPath(item)] = <<placeholderFile(item)>>
            /\ srtPath(item) \notin DOMAIN files)
  /\ [][\A j \in Lanes :
          (lanePc[j] = "chain" /\ lanePc'[j] \notin {"chain", "read"}) =>
            /\ exit'[currentId(j)] = "ret577"
            /\ txtPath(current(j)) \in DOMAIN files'
            /\ files'[txtPath(current(j))] = <<placeholderFile(current(j))>>
            /\ srtPath(current(j)) \notin DOMAIN files']_vars

\* Subtitles were requested, the lecture has a caption track in the
\* preferred language, no selector opened the panel, and the lecture ended
\* with its placeholder.
C4_Witness ==
  /\ downloadSrt
  /\ \E item \in WorkItems :
       /\ HasMatchingTrack(item)
       /\ exit[item.lecture.id] = "ret577"
       /\ files[txtPath(item)] = <<placeholderFile(item)>>

\* C5: the selectors are tried in list order from the first; a pass that
\* clicked and saw no visible panel is followed by the next selector, and
\* the loop ends without success only behind the last selector; a pass
\* that saw the panel visible ends the loop with the flag set, and from
\* then on no selector is tried and no click issued for the lecture.
C5_ChainStopsAtFirstSuccess ==
  /\ [](\A j \in Lanes :
          /\ lastTry[j] = "visible" => lanePc[j] \in {"read", "captions"}
          /\ transcriptButtonFound[j] <=> lastTry[j] = "visible"
          /\ lanePc[j] = "chain" <=> sel[j] \in transcriptButtonSelectors)
  /\ [][\A j \in Lanes :
          /\ (lanePc[j] # "chain" /\ lanePc'[j] = "chain") => sel'[j] = 1
          /\ (lanePc[j] = "chain" /\ lanePc'[j] = "chain") =>
               /\ sel'[j] \in {sel[j], sel[j] + 1}
               /\ sel'[j] = sel[j] + 1 => lastTry'[j] \in {"noClick", "clicked"}
               /\ sel'[j] = sel[j] => lastTry'[j] = lastTry[j]
          /\ (lanePc[j] = "chain" /\ lanePc'[j] \notin {"chain", "read"}) =>
               sel[j] = 6
          /\ (lanePc[j] = "chain" /\ lanePc'[j] = "read") =>
               (lastTry'[j] = "visible" /\ transcriptButtonFound'[j])
          /\ lastTry[j] = "visible" => lastTry'[j] \in {"visible", "none"}
          /\ lanePc'[j] = "read" => lanePc[j] \in {"chain", "read"}]_vars

\* The third selector was clicked without the panel showing, and the loop
\* is at the fourth.
C5_Witness ==
  \E j \in Lanes :
    lanePc[j] = "chain" /\ sel[j] = 4 /\ lastTry[j] = "clicked"

\* C6: with subtitles requested, a lecture whose transcript was written
\* and that has a track in the preferred language gets exactly one
\* subtitle file; one that has no such track gets none and ends without
\* an error.
C6_SubtitleForMatchingTrack ==
  \A item \in WorkItems :
    (downloadSrt /\ exit[item.lecture.id] # "none" /\ TranscriptWritten(item)) =>
      /\ HasMatchingTrack(item) =>
           /\ srtPath(item) \in DOMAIN files
           /\ Len(files[srtPath(item)]) = 1
      /\ ~HasMatchingTrack(item) =>
           /\ srtPath(item) \notin DOMAIN files
           /\ exit[item.lecture.id] = "end642"

\* The positions at which a lane is inside a call of processLecture.
Processing == {"goto", "chain", "read", "captions"}

C18_OwnPagePerLane ==
  /\ \A j \in Lanes :
       /\ lanePc[j] = "newPage" <=> page[j] = Null
       /\ page[j] # Null => page[j] = Some(j)
       /\ lanePc[j] \in Processing \cup {"closing"} => Val(page[j]) \in openPages
       /\ lanePc[j] = "closed" => Val(page[j]) \notin openPages
  /\ \A j, k \in Lanes :
       (j # k /\ page[j] # Null /\ page[k] # Null) => page[j] # page[k]
  /\ Cardinality(openPages)
       = Cardinality({j \in Lanes : lanePc[j] \in Processing \cup {"closing"}})
  /\ mainPc = "returned" => openPages = {}

\* One lane has finished and closed its page while another lane is
\* reading the panel on its own page.
C18_Witness ==
  \E j, k \in Lanes :
    /\ lanePc[j] = "closed"
    /\ Len(chunks[j]) = 1 /\ exit[chunks[j][1].lecture.id] # "none"
    /\ lanePc[k] = "read"
    /\ openPages = {Val(page[k])}

\* C16: downloadTranscripts returns, and success is reported, only when
\* every lane has left all its items and closed its page; and whenever
\* main has called browser.close(), no lane is inside processLecture.
C16_JoinBeforeClose ==
  /\ mainPc = "returned" =>
       \A j \in Lanes :
         /\ lanePc[j] = "closed"
         /\ \A k \in 1..Len(chunks[j]) : exit[chunks[j][k].lecture.id] # "none"
  /\ browser # "open" => \A j \in Lanes : lanePc[j] \notin Processing

\* C17: a lecture that is left through the catch of processLecture takes
\* no lane down.  In the step that leaves it, its lane goes on to the next
\* item of its chunk, or to page.close() behind the last; no other lane,
\* no other lecture, no file and not main changes.  A lane rejects only in
\* front of its first item or behind its last, and a lane that has reached
\* page.close() has left every item of its chunk.
C17_FailureContained ==
  /\ [](\A j \in Lanes :
          /\ lanePc[j] = "rejected" => laneI[j] \in {0, Len(chunks[j])}
          /\ lanePc[j] \in {"closing", "closed", "rejected"} /\ laneI[j] > 0 =>
               \A k \in 1..Len(chunks[j]) : exit[chunks[j][k].lecture.id] # "none")
  /\ [][\A j \in Lanes :
          (lanePc[j] \in Processing /\ exit'[currentId(j)] = "catch") =>
            /\ laneI'[j] = laneI[j] + 1
            /\ IF laneI'[j] < Len(chunks[j])
               THEN /\ lanePc'[j] = "goto"
                    /\ callers'[chunks[j][laneI'[j] + 1].lecture.id] = <<j>>
               ELSE lanePc'[j] = "closing"
            /\ \A k \in Lanes \ {j} :
                 lanePc'[k] = lanePc[k] /\ laneI'[k] = laneI[k]
            /\ \A id \in LectureIds \ {currentId(j)} : exit'[id] = exit[id]
            /\ files' = files
            /\ mainPc' = mainPc /\ browser' = browser]_vars

\* The first lecture of a lane was left through the catch, and the lane
\* is at the selectors of its second lecture.
C17_Witness ==
  \E j \in Lanes :
    /\ Len(chunks[j]) = 2
    /\ exit[chunks[j][1].lecture.id] = "catch"
    /\ laneI[j] = 1
    /\ lanePc[j] = "chain"

\* C23: a lecture whose panel was seen visible and whose text was blank
\* at every read (it is left by the return behind the text loop) has a
\* placeholder as its transcript file.
C23_BlankTextPlaceholder ==
  \A item \in WorkItems :
    exit[item.lecture.id] = "ret605" =>
      /\ txtPath(item) \in DOMAIN files
      /\ files[txtPath(item)] = <<placeholderFile(item)>>

LecturePaths ==
  {txtPath(item) : item \in WorkItems} \cup {srtPath(item) : item \in WorkItems}

\* C21: when the run has ended (all lanes joined, the browser closed),
\* the output directory holds a file besides the files of the single
\* lectures, the combined transcript.
C21_CombinedTranscript ==
  (mainPc = "returned" /\ browser = "closed") =>
    \E p \in DOMAIN files : p \notin LecturePaths

(***************************************************************************)
(* SpecLecture: one call of processLecture (index.js 492-646) on one page, *)
(* one step per await.  pLast, pSettled and pReads record what was done    *)
(* on the page; the code does not read them.                               *)
(***************************************************************************)
\* The items processLecture is called with: a standalone video lecture
\* without captions, and one with a caption track.
LectureItems ==
  {flatten(processCourseStructure(runListing(<<kind>>)))[1] :
     kind \in {k \in RunKinds : k.class = "lecture"}}

\* No operation on the page yet.
NoOp == [op |-> "none", result |-> "none", ms |-> 0]

LectureIdle ==
  /\ pItem = Null /\ pDownloadSrt = FALSE /\ pLanguage = Str_en_US
  /\ pPc = "idle" /\ pSel = 0 /\ pFound = FALSE /\ pRetries = 0
  /\ pReads = <<>> /\ pLast = NoOp /\ pSettled = FALSE
  /\ pFiles = <<>> /\ pExit = "none"

\* processLecture has been called (index.js 483) and awaits page.goto.
LectureInit ==
  /\ pItem \in LectureItems
  /\ pDownloadSrt \in BOOLEAN
  /\ pLanguage \in Languages
  /\ pPc = "goto" /\ pSel = 0 /\ pFound = FALSE /\ pRetries = 0
  /\ pReads = <<>> /\ pLast = NoOp /\ pSettled = FALSE
  /\ pFiles = <<>> /\ pExit = "none"

\* The operation op on the page has ended with result; a delay has lasted
\* ms.  A navigation or click that took effect unsettles the page, also
\* when its call was rejected afterwards ("threwLate"); a delay settles it.
pageOp(op, result, ms) ==
  /\ pLast' = [op |-> op, result |-> result, ms |-> ms]
  /\ pSettled' = IF op = "delay" THEN TRUE
                 ELSE IF op \in {"goto", "click"}
                         /\ result \in {"resolved", "threwLate"} THEN FALSE
                 ELSE pSettled

\* processLecture returns at `where`, or its catch of index.js 643 has
\* run.
leave(where) ==
  /\ pPc' = "left"
  /\ pExit' = where

\* index.js 533 and 571-578: the loop takes the next selector, or it is
\* over without a visible panel: the placeholder is written and
\* processLecture returns.
nextSelector ==
  IF pSel + 1 \in transcriptButtonSelectors
  THEN /\ pPc' = "exists"
       /\ pSel' = pSel + 1
       /\ UNCHANGED <<pFiles, pExit>>
  ELSE /\ pFiles' = writePlaceholder(pFiles, pItem)
       /\ leave("ret577")
       /\ pSel' = 0

\* A selector loop whose catch throws the error on.
selectorCatch_rethrow == "rethrow"

\* index.js 563-566: the catch inside the selector loop ends the pass.
selectorCatch == "continue"

\* An operation of the pass with the selector pSel has thrown.
selectorThrew ==
  IF selectorCatch = "continue" THEN nextSelector
  ELSE leave("catch") /\ pSel' = 0 /\ UNCHANGED pFiles

\* index.js 505-508: page.goto resolves, or rejects (a time-out too).
PageGoto ==
  /\ pPc = "goto"
  /\ \E loaded \in BOOLEAN :
       IF loaded
       THEN pPc' = "waitVideo" /\ pageOp("goto", "resolved", 0) /\ UNCHANGED pExit
       ELSE leave("catch") /\ pageOp("goto", "threw", 0)
  /\ UNCHANGED <<pItem, pDownloadSrt, pLanguage, pSel, pFound, pRetries, pReads,
                 pFiles>>
  /\ UNCHANGED notLecture

\* index.js 511-516: the wait for the player ends, by the player or by
\* its time-out, which the .catch swallows.
WaitForVideo ==
  /\ pPc = "waitVideo"
  /\ \E result \in {"resolved", "threw"} : pageOp("wait", result, 0)
  /\ pPc' = "delayLoaded"
  /\ UNCHANGED <<pItem, pDownloadSrt, pLanguage, pSel, pFound, pRetries, pReads,
                 pFiles, pExit>>
  /\ UNCHANGED notLecture

\* The length of the setTimeout at each delay of processLecture
\* (index.js 519, 548, 581, 599, 615, 642).
delayMs(pc) ==
  CASE pc = "delayLoaded" -> 2000
    [] pc = "delayClick" -> 1500
    [] pc = "delayPanel" -> 2000
    [] pc = "delayRetry" -> 1000
    [] pc = "delayWritten" -> 500
    [] pc = "delayEnd" -> 1000

\* A delay is over, and the code up to the next await is run: the
\* selector loop starts (index.js 531-535); the visibility query is sent
\* (551); the text loop starts (584-589); retries++ and the loop goes on or
\* processLecture returns without text (600-606); the caption branch is
\* entered (618); processLecture ends (643).
Delay ==
  /\ pPc \in {"delayLoaded", "delayClick", "delayPanel", "delayRetry",
              "delayWritten", "delayEnd"}
  /\ pageOp("delay", "resolved", delayMs(pPc))
  /\ CASE pPc = "delayLoaded" ->
            pPc' = "exists" /\ pSel' = 1 /\ UNCHANGED <<pRetries, pExit>>
       [] pPc = "delayClick" ->
            pPc' = "visible" /\ UNCHANGED <<pSel, pRetries, pExit>>
       [] pPc = "delayPanel" ->
            pPc' = "read" /\ pRetries' = 0 /\ UNCHANGED <<pSel, pExit>>
       [] pPc = "delayRetry" ->
            /\ pRetries' = pRetries + 1
            /\ IF pRetries + 1 < maxRetries
               THEN pPc' = "read" /\ UNCHANGED pExit
               ELSE leave("ret605")
            /\ UNCHANGED pSel
       [] pPc = "delayWritten" ->
            pPc' = "captions" /\ UNCHANGED <<pSel, pRetries, pExit>>
       [] pPc = "delayEnd" ->
            leave("end643") /\ UNCHANGED <<pSel, pRetries>>
  /\ UNCHANGED <<pItem, pDownloadSrt, pLanguage, pFound, pReads, pFiles>>
  /\ UNCHANGED notLecture

\* index.js 536-541: the existence query of the selector pSel throws,
\* finds nothing, or finds an element, and then the click is sent.
ButtonExists ==
  /\ pPc = "exists"
  /\ \E result \in {"threw", "false", "true"} :
       /\ pageOp("exists", result, 0)
       /\ CASE result = "threw" -> selectorThrew
            [] result = "false" -> nextSelector
            [] result = "true" ->
                 pPc' = "click" /\ UNCHANGED <<pSel, pFiles, pExit>>
  /\ UNCHANGED <<pItem, pDownloadSrt, pLanguage, pFound, pRetries, pReads>>
  /\ UNCHANGED notLecture

\* index.js 544-548: page.$eval rejects, before the click was made (the
\* element is gone) or after it (the click has replaced the document, or
\* the answer of the page was lost); or it resolves and the delay starts.
ClickButton ==
  /\ pPc = "click"
  /\ \E result \in {"threw", "threwLate", "resolved"} :
       /\ pageOp("click", result, 0)
       /\ IF result # "resolved" THEN selectorThrew
          ELSE pPc' = "delayClick" /\ UNCHANGED <<pSel, pFiles, pExit>>
  /\ UNCHANGED <<pItem, pDownloadSrt, pLanguage, pFound, pRetries, pReads>>
  /\ UNCHANGED notLecture

\* index.js 551-562 and 581: the visibility query throws, or reports the
\* panel hidden, or visible: then the loop is left and the delay in front
\* of the text loop starts.
PanelVisible ==
  /\ pPc = "visible"
  /\ \E result \in {"threw", "false", "true"} :
       /\ pageOp("visible", result, 0)
       /\ CASE result = "threw" -> selectorThrew /\ UNCHANGED pFound
            [] result = "false" -> nextSelector /\ UNCHANGED pFound
            [] result = "true" ->
                 /\ pFound' = TRUE
                 /\ pPc' = "delayPanel"
                 /\ pSel' = 0
                 /\ UNCHANGED <<pFiles, pExit>>
  /\ UNCHANGED <<pItem, pDownloadSrt, pLanguage, pRetries, pReads>>
  /\ UNCHANGED notLecture

\* index.js 589-599 and 609-615: the read of the panel text throws, or
\* returns a text: text ends the loop and is written to the transcript
\* file, a blank text starts the delay of the retry.
ReadPanel ==
  /\ pPc = "read"
  /\ \E threw \in BOOLEAN, transcriptText \in PanelTexts :
       IF threw
       THEN /\ transcriptText = <<>>
            /\ pageOp("read", "threw", 0)
            /\ leave("catch")
            /\ UNCHANGED <<pReads, pFiles>>
       ELSE /\ pageOp("read", "resolved", 0)
            /\ pReads' = Append(pReads, transcriptText)
            /\ IF hasText(transcriptText)
               THEN /\ pFiles' = writeTranscript(pFiles, pItem, transcriptText)
                    /\ pPc' = "delayWritten"
               ELSE /\ pPc' = "delayRetry"
                    /\ UNCHANGED pFiles
            /\ UNCHANGED pExit
  /\ UNCHANGED <<pItem, pDownloadSrt, pLanguage, pSel, pFound, pRetries>>
  /\ UNCHANGED notLecture

\* index.js 618-642: without a request for subtitles or without captions
\* the last delay starts.  Else the callback of find reads
\* preferredLanguage, which is not bound in processLecture.
CaptionsStep ==
  /\ pPc = "captions"
  /\ LET lecture == pItem.lecture
     IN IF pDownloadSrt /\ lecture.captions # Null
           /\ Len(Val(lecture.captions)) > 0
        THEN IF "preferredLanguage" \notin processLectureScope
             THEN /\ leave("catch")
                  /\ UNCHANGED <<pFiles, pLast, pSettled>>
             ELSE LET matchingCaption == find(Val(lecture.captions), pLanguage)
                  IN IF matchingCaption # Null
                     THEN \E fetched \in BOOLEAN, vtt \in FetchedVtt :
                            /\ pageOp("fetch", IF fetched THEN "resolved" ELSE "threw", 0)
                            /\ pFiles' =
                                 IF fetched
                                 THEN writeFile(pFiles, srtPath(pItem),
                                        [title |-> filename(pItem.lecture, pItem.chapter),
                                         body |-> convertVttToSrt(vtt)])
                                 ELSE pFiles
                            /\ pPc' = "delayEnd"
                            /\ UNCHANGED pExit
                     ELSE /\ pPc' = "delayEnd"
                          /\ UNCHANGED <<pFiles, pExit, pLast, pSettled>>
        ELSE /\ pPc' = "delayEnd"
             /\ UNCHANGED <<pFiles, pExit, pLast, pSettled>>
  /\ UNCHANGED <<pItem, pDownloadSrt, pLanguage, pSel, pFound, pRetries, pReads>>
  /\ UNCHANGED notLecture

(***************************************************************************)
(* Vocabulary of the claims about one call of processLecture.              *)
(***************************************************************************)
\* The text of the last read of the panel.
LastRead == pReads[Len(pReads)]

\* The contents written to the transcript path of the item, in order.
TxtWrites ==
  IF txtPath(pItem) \in DOMAIN pFiles THEN pFiles[txtPath(pItem)] ELSE <<>>

\* C24: the panel text is read only after the panel was seen visible and
\* at most 3 times; a read that follows another one follows a delay of
\* 1000 ms; every read in front of the last returned a blank text, and
\* behind a read that returned text no further read is made; the
\* transcript file holds a real text exactly when the last read returned
\* one, and then that text.
C24_BoundedReads ==
  /\ Len(pReads) <= 3
  /\ Len(pReads) > 0 => pFound
  /\ \A k \in 1..(Len(pReads) - 1) : ~hasText(pReads[k])
  /\ (pPc = "read" /\ Len(pReads) > 0) =>
       /\ pLast = [op |-> "delay", result |-> "resolved", ms |-> 1000]
       /\ ~hasText(LastRead)
  /\ (Len(pReads) > 0 /\ hasText(LastRead)) =>
       /\ pPc \notin {"read", "delayRetry"}
       /\ TxtWrites = <<[title |-> filename(pItem.lecture, pItem.chapter),
                         body |-> LastRead]>>
  /\ (Len(pReads) = 0 \/ ~hasText(LastRead)) =>
       \A k \in 1..Len(TxtWrites) : TxtWrites[k].body = Str_noTranscript

\* The third read returned the text, which is in the transcript file.
C24_Witness ==
  /\ Len(pReads) = 3
  /\ hasText(pReads[3])
  /\ Len(TxtWrites) = 1
  /\ TxtWrites[1].body = pReads[3]

\* A text of white space only, or none.
IsBlank(text) == \A k \in 1..Len(text) : IsWhitespace(text[k])

\* The step of the lecture at a position of processLecture, and the
\* place of the step in the order NAVIGATING, LOCATING_TOGGLE,
\* OPENING_PANEL, EXTRACTING_TEXT, EXTRACTING_CAPTIONS, DONE; ABORTED is
\* behind all of them.
StepOf(pc, ex) ==
  CASE pc \in {"goto", "waitVideo", "delayLoaded"} -> 1
    [] pc = "exists" -> 2
    [] pc \in {"click", "delayClick", "visible"} -> 3
    [] pc \in {"delayPanel", "read", "delayRetry"} -> 4
    [] pc \in {"delayWritten", "captions"} -> 5
    [] pc = "delayEnd" -> 6
    [] pc = "left" -> IF ex = "catch" THEN 7 ELSE 6

\* The same with LOCATING_TOGGLE and OPENING_PANEL as one stage, the
\* selector loop.
StageOf(pc, ex) == IF StepOf(pc, ex) = 3 THEN 2 ELSE StepOf(pc, ex)

\* Text is read only behind a visible panel, and the caption branch is
\* entered (and a subtitle file written) only behind a read that returned
\* text, which is in the transcript file.
ReadsAndCaptionsInOrder ==
  /\ (pPc \in {"delayPanel", "read", "delayRetry"} \/ Len(pReads) > 0) => pFound
  /\ (pPc \in {"delayWritten", "captions", "delayEnd"} \/ pLast.op = "fetch"
        \/ srtPath(pItem) \in DOMAIN pFiles) =>
       /\ Len(pReads) > 0
       /\ ~IsBlank(LastRead)
       /\ Len(TxtWrites) = 1
       /\ TxtWrites[1].body = LastRead

C26_SettleBeforeRead ==
  pPc \in {"exists", "visible", "read"} =>
    /\ pSettled
    /\ pLast.op \in {"goto", "click"} => pLast.result = "threw"

\* C30: a step in which the existence query, the click or the
\* visibility query of a selector throws does not leave the lecture
\* through the catch of processLecture: the loop goes on with the next
\* selector and writes nothing, or, behind the last selector, ends in the
\* placeholder branch.  A lecture left through the catch was not left by
\* an operation of the selector loop.
C30_SelectorErrorConfined ==
  /\ [](pExit = "catch" => pLast.op \notin {"exists", "click", "visible"})
  /\ [][(pPc \in {"exists", "click", "visible"}
           /\ pLast'.result \in {"threw", "threwLate"}) =>
          /\ pExit' # "catch"
          /\ pSel < 6 =>
               /\ pPc' = "exists" /\ pSel' = pSel + 1
               /\ pFiles' = pFiles /\ pExit' = "none"
          /\ pSel = 6 =>
               /\ pPc' = "left" /\ pExit' = "ret577"
               /\ TxtWrites' = <<[title |-> filename(pItem.lecture, pItem.chapter),
                                  body |-> Str_noTranscript]>>]_vars

\* The click of the second selector has thrown, and the loop is at the
\* existence query of the third.
C30_Witness ==
  /\ pPc = "exists"
  /\ pSel = 3
  /\ pLast = [op |-> "click", result |-> "threw", ms |-> 0]
  /\ pExit = "none"

(***************************************************************************)
(* SpecMain: main (index.js 28-267) from the start of the process to its   *)
(* end, with the call of downloadTranscripts as one step.                  *)
(***************************************************************************)
Str_node == <<"n", "o", "d", "e">>
Str_script == <<"i", "n", "d", "e", "x", ".", "j", "s">>
Str_email == <<"a", "@", "b">>
Str_courseId == <<"4", "2">>

courseIdMaxAttempts == 3

MaxUrlPieces == 3

Str_learn == <<"/", "l", "e", "a", "r", "n", "/">>
Str_learnLecture == Str_learn \o <<"l", "e", "c", "t", "u", "r", "e", "/">>

\* The pieces the URL arguments are put together from: a path segment,
\* "/learn", "/lecture/" and "#".
UrlPieces ==
  {<<"u">>, <<"/", "l", "e", "a", "r", "n">>,
   <<"/", "l", "e", "c", "t", "u", "r", "e", "/">>, <<"#">>}

\* The URL arguments of the model (the empty string is one).
UrlArguments == {concat(pieces) : pieces \in SeqUpTo(UrlPieces, MaxUrlPieces)}

\* String.prototype.endsWith
endsWith(s, sub) ==
  Len(s) >= Len(sub) /\ SubSeq(s, Len(s) - Len(sub) + 1, Len(s)) = sub

\* A clean-up that keeps what follows /learn/.
cleanUrl_keepLearn(url) ==
  LET noHash == split(url, <<"#">>)[1]
  IN IF ~endsWith(noHash, <<"/">>) THEN noHash \o <<"/">> ELSE noHash

\* index.js 40-46: the clean-up of the course URL.
cleanUrl(url) ==
  LET base == split(url, Str_learn)[1]
      noHash == split(base, <<"#">>)[1]
  IN IF ~endsWith(noHash, <<"/">>) THEN noHash \o <<"/">> ELSE noHash

MainIdle ==
  /\ mArgv = <<>> /\ mEmail = Null /\ mPc = "idle" /\ mAttempt = 0
  /\ mLoginPageLoaded = FALSE
  /\ mDownloadSrt = FALSE /\ mTabAnswer = <<>> /\ mTabCount = Null
  /\ mCourseJson = Null
  /\ mCourseId = Null /\ mManifest = FALSE /\ mLanes = FALSE
  /\ mBrowser = "none" /\ mExitCode = Null

\* The process starts with or without a course URL argument and with or
\* without UDEMY_EMAIL in its environment (an empty value counts as none).
MainInit ==
  /\ mArgv \in {<<Str_node, Str_script>>}
                \cup {<<Str_node, Str_script, url>> : url \in UrlArguments}
  /\ mEmail \in {Null, Some(<<>>), Some(Str_email)}
  /\ mPc = "start"
  /\ mLoginPageLoaded = FALSE
  /\ mDownloadSrt = FALSE /\ mTabAnswer = <<>> /\ mTabCount = Null
  /\ mCourseJson = Null
  /\ mAttempt = 0
  /\ mCourseId = Null /\ mManifest = FALSE /\ mLanes = FALSE
  /\ mBrowser = "none" /\ mExitCode = Null

\* process.exit(code): the process ends at once; no finally is run.
exitProcess(code) ==
  /\ mPc' = "exited"
  /\ mExitCode' = Some(code)

\* An error thrown inside the try of index.js 88: the catch of 260 logs it
\* and the finally calls browser.close().
throwInTry ==
  /\ mPc' = "finally"
  /\ mBrowser' = "closing"
  /\ UNCHANGED mExitCode

\* A check of the credential that lets every run pass.
emailMissing_never(email) == FALSE

\* !process.env.UDEMY_EMAIL (index.js 108)
emailMissing(email) == email = Null \/ Val(email) = <<>>

\* index.js 30-48: the argument check and the clean-up of the URL, up to
\* the first question.
MainStart ==
  /\ mPc = "start"
  /\ IF Len(mArgv) < 3
     THEN exitProcess(1)
     ELSE mPc' = "prompts" /\ UNCHANGED mExitCode
  /\ UNCHANGED <<mArgv, mEmail, mLoginPageLoaded, mDownloadSrt, mTabAnswer, mTabCount, mCourseJson, mAttempt, mCourseId, mManifest, mLanes, mBrowser>>
  /\ UNCHANGED notMain

\* What the operator can type at the first question.
SrtAnswers == {<<>>, <<"n", "o">>, <<"y">>, <<" ", "Y", "E", "S">>}

\* index.js 52-53
yesAnswer(answer) ==
  LET normalized == toLowerCase(trim(answer))
  IN normalized = <<"y", "e", "s">> \/ normalized = <<"y">>

\* What the operator can type at the question for the number of tabs.
TabAnswers ==
  {<<>>, <<"2">>, <<" ", "3", " ">>, <<"0">>, <<"-", "1">>, <<"x">>, <<"2", "x">>}

\* parseInt(s, 10): white space in front is skipped, a sign is read, and
\* the digits that follow are the number; without a digit the result is
\* NaN (Null).
parseInt(s) ==
  LET t == trimStart(s)
      negative == t # <<>> /\ Head(t) = "-"
      signed == t # <<>> /\ Head(t) \in {"-", "+"}
      ds == leadingDigits(IF signed THEN Tail(t) ELSE t)
  IN IF ds = <<>> THEN Null
     ELSE Some(IF negative THEN 0 - NumberOf(ds) ELSE NumberOf(ds))

\* index.js 66-67
tabCountOf(answer) ==
  LET normalized == trim(answer)
  IN IF normalized # <<>> THEN parseInt(normalized) ELSE Some(5)

\* index.js 50-73: the three questions are answered and the launch of the
\* browser is requested.
Prompts ==
  /\ mPc = "prompts"
  /\ \E answer \in SrtAnswers : mDownloadSrt' = yesAnswer(answer)
  /\ \E answer \in TabAnswers :
       /\ mTabAnswer' = answer
       /\ mTabCount' = tabCountOf(answer)
  /\ mPc' = "launch"
  /\ UNCHANGED <<mArgv, mEmail, mLoginPageLoaded, mCourseJson, mAttempt, mCourseId, mManifest, mLanes,
                 mBrowser, mExitCode>>
  /\ UNCHANGED notMain

\* index.js 73-95: the launch resolves and the try is entered: a page is
\* opened and the first navigation to the login page starts.  A launch
\* that rejects ends main, and the handler of index.js 649-652 the process.
Launch ==
  /\ mPc = "launch"
  /\ \E launched \in BOOLEAN, opened \in BOOLEAN :
       IF ~launched
       THEN exitProcess(1) /\ UNCHANGED <<mBrowser, mAttempt>>
       ELSE IF ~opened
       THEN throwInTry /\ UNCHANGED mAttempt
       ELSE /\ mPc' = "loginNav"
            /\ mBrowser' = "open"
            /\ mAttempt' = 0
            /\ UNCHANGED mExitCode
  /\ UNCHANGED <<mArgv, mEmail, mLoginPageLoaded, mDownloadSrt, mTabAnswer, mTabCount, mCourseJson, mCourseId, mManifest, mLanes>>
  /\ UNCHANGED notMain

\* index.js 94-116: one navigation of the loop of 94.  It resolves, or it
\* rejects with `frame was detached` and is repeated once, or it rejects
\* with another error.  Behind the loop the credential is checked.
LoginNav ==
  /\ mPc = "loginNav"
  /\ \E outcome \in {"loaded", "detached", "error"} :
       /\ mLoginPageLoaded' = (outcome = "loaded")
       /\ IF outcome = "error"
          THEN throwInTry /\ UNCHANGED mAttempt
          ELSE IF outcome = "detached" /\ mAttempt + 1 < 2
          THEN /\ mAttempt' = mAttempt + 1
               /\ UNCHANGED <<mPc, mBrowser, mExitCode>>
          ELSE IF emailMissing(mEmail)
          THEN exitProcess(1) /\ UNCHANGED <<mBrowser, mAttempt>>
          ELSE /\ mPc' = "login"
               /\ UNCHANGED <<mBrowser, mAttempt, mExitCode>>
  /\ UNCHANGED <<mArgv, mEmail, mDownloadSrt, mTabAnswer, mTabCount, mCourseJson, mCourseId, mManifest, mLanes>>
  /\ UNCHANGED notMain

\* index.js 116-159: the e-mail and the verification code are entered.
Login ==
  /\ mPc = "login"
  /\ \E done \in BOOLEAN :
       IF done THEN mPc' = "courseNav" /\ UNCHANGED <<mBrowser, mExitCode>>
       ELSE throwInTry
  /\ UNCHANGED <<mArgv, mEmail, mLoginPageLoaded, mDownloadSrt, mTabAnswer, mTabCount, mCourseJson, mAttempt, mCourseId, mManifest, mLanes>>
  /\ UNCHANGED notMain

\* courseUrl of index.js 37-46, which main does not assign again.
courseUrl == cleanUrl(mArgv[3])

\* index.js 163-179 and 206-214: the course page is loaded.  Without
\* /learn/lecture/ in the URL the first attempt to read the course id
\* starts; with it the extraction is skipped and the first fetch starts
\* with courseId null.
CourseNav ==
  /\ mPc = "courseNav"
  /\ \E loaded \in BOOLEAN :
       IF loaded
       THEN /\ mPc' = IF ~includes(courseUrl, Str_learnLecture)
                      THEN "courseId" ELSE "fetch"
            /\ mAttempt' = 1
            /\ UNCHANGED <<mBrowser, mExitCode>>
       ELSE throwInTry /\ UNCHANGED mAttempt
  /\ UNCHANGED <<mArgv, mEmail, mLoginPageLoaded, mDownloadSrt, mTabAnswer, mTabCount, mCourseJson, mCourseId, mManifest, mLanes>>
  /\ UNCHANGED notMain

\* !courseId (index.js 199)
courseIdMissing(courseId) == courseId = Null \/ Val(courseId) = <<>>

\* index.js 175-214: one attempt of the loop of 175.  The wait or the
\* read throws and courseId keeps its value, or the attribute is read: as
\* an id, as the empty string, or as null.  An id ends the loop.  Behind
\* the last attempt a missing id throws; else the first fetch of the
\* curriculum starts.
CourseIdAttempt ==
  /\ mPc = "courseId"
  /\ \E threw \in BOOLEAN, read \in {Null, Some(<<>>), Some(Str_courseId)} :
       LET courseId == IF threw THEN mCourseId ELSE read
       IN /\ threw => read = Null
          /\ mCourseId' = courseId
          /\ IF (~threw /\ ~courseIdMissing(courseId))
                \/ mAttempt = courseIdMaxAttempts
             THEN IF courseIdMissing(courseId)
                  THEN throwInTry /\ UNCHANGED mAttempt
                  ELSE /\ mPc' = "fetch"
                       /\ mAttempt' = 1
                       /\ UNCHANGED <<mBrowser, mExitCode>>
             ELSE /\ mAttempt' = mAttempt + 1
                  /\ UNCHANGED <<mPc, mBrowser, mExitCode>>
  /\ UNCHANGED <<mArgv, mEmail, mLoginPageLoaded, mDownloadSrt, mTabAnswer, mTabCount, mCourseJson, mManifest, mLanes>>
  /\ UNCHANGED notMain

\* A fetch loop of four attempts.
maxAttempts_four == 3 + 1

\* index.js 211
maxAttempts == 3

\* What one attempt can meet (index.js 216-233): the navigation, the read
\* of the body or JSON.parse throws, or the body is an HTML page; the body
\* is JSON without results; the body is JSON with results.
FetchOutcomes == {"threw", "noResults", "results"}

\* courseJson && courseJson.results (index.js 228)
hasResults(courseJson) == courseJson # Null /\ Val(courseJson).results

\* index.js 213-257: one attempt of the loop of 213.  A body with results
\* ends the loop: the structure is resolved, CONTENTS.txt is written and
\* downloadTranscripts is called, which starts the lanes.  A failed attempt
\* is followed by the pause of index.js 237, and the third failure throws.
FetchAttempt ==
  /\ mPc = "fetch"
  /\ \E outcome \in FetchOutcomes, written \in BOOLEAN :
       LET courseJson ==
             IF outcome = "threw" THEN mCourseJson
             ELSE Some([results |-> outcome = "results"])
       IN /\ mCourseJson' = courseJson
          /\ IF outcome = "results"
             THEN IF ~courseIdMissing(mCourseId)
                  THEN IF written
                       THEN /\ mManifest' = TRUE
                            /\ mLanes' = TRUE
                            /\ mPc' = "download"
                            /\ UNCHANGED <<mAttempt, mBrowser, mExitCode>>
                       ELSE throwInTry /\ UNCHANGED <<mAttempt, mManifest, mLanes>>
                  ELSE \* courseStructure stays null; downloadTranscripts
                       \* scrapes the lecture URLs (index.js 427-451) or
                       \* throws at courseStructure.chapters (index.js 455)
                       IF includes(courseUrl, Str_learnLecture)
                       THEN /\ mLanes' = TRUE
                            /\ mPc' = "download"
                            /\ UNCHANGED <<mAttempt, mManifest, mBrowser,
                                           mExitCode>>
                       ELSE throwInTry /\ UNCHANGED <<mAttempt, mManifest, mLanes>>
             ELSE IF mAttempt < maxAttempts
             THEN /\ mPc' = "retryPause"
                  /\ UNCHANGED <<mAttempt, mManifest, mLanes, mBrowser, mExitCode>>
             ELSE throwInTry /\ UNCHANGED <<mAttempt, mManifest, mLanes>>
  /\ UNCHANGED <<mArgv, mEmail, mLoginPageLoaded, mDownloadSrt, mTabAnswer, mTabCount, mCourseId>>
  /\ UNCHANGED notMain

\* index.js 236-237 and 213: the pause of 5 seconds is over, attempt++,
\* and the next attempt starts.
FetchPause ==
  /\ mPc = "retryPause"
  /\ mPc' = "fetch"
  /\ mAttempt' = mAttempt + 1
  /\ UNCHANGED <<mArgv, mEmail, mLoginPageLoaded, mDownloadSrt, mTabAnswer, mTabCount, mCourseJson,
                 mCourseId, mManifest, mLanes, mBrowser, mExitCode>>
  /\ UNCHANGED notMain

\* index.js 257-263: downloadTranscripts returns or throws; either way the
\* finally calls browser.close().
Download ==
  /\ mPc = "download"
  /\ mPc' = "finally"
  /\ mBrowser' = "closing"
  /\ UNCHANGED <<mArgv, mEmail, mLoginPageLoaded, mDownloadSrt, mTabAnswer, mTabCount, mCourseJson, mAttempt, mCourseId, mManifest, mLanes, mExitCode>>
  /\ UNCHANGED notMain

\* index.js 264-266: the browser is closed and main returns.
Finally ==
  /\ mPc = "finally"
  /\ mPc' = "returned"
  /\ mBrowser' = "closed"
  /\ UNCHANGED <<mArgv, mEmail, mLoginPageLoaded, mDownloadSrt, mTabAnswer, mTabCount, mCourseJson, mAttempt, mCourseId, mManifest, mLanes, mExitCode>>
  /\ UNCHANGED notMain

\* C19: the manifest is written and the lanes are started only in a run
\* that has a course URL argument, a non-empty UDEMY_EMAIL and a course
\* id.  A run without the argument ends at its first step with code 1 and
\* without a browser; a run without the credential ends with code 1
\* before the login; a run that ends its attempts without a course id
\* goes to the finally; none of them writes the manifest or starts a lane.
C19_AbortBeforeLanes ==
  /\ (mManifest \/ mLanes) =>
       /\ Len(mArgv) >= 3
       /\ mEmail # Null /\ Val(mEmail) # <<>>
       /\ mCourseId # Null /\ Val(mCourseId) # <<>>
  /\ Len(mArgv) < 3 => (mPc \in {"start", "exited"} /\ mBrowser = "none")
  /\ (mEmail = Null \/ Val(mEmail) = <<>>) =>
       mPc \in {"start", "prompts", "launch", "loginNav", "finally", "returned",
                "exited"}
  /\ mPc \in {"fetch", "download"} => ~courseIdMissing(mCourseId)
  /\ mPc = "exited" => (mExitCode = Some(1) /\ ~mManifest /\ ~mLanes)

\* A run with the argument and the credential has used its three
\* attempts without reading a course id and is in the finally: nothing
\* was written and no lane was started.
C19_Witness ==
  /\ Len(mArgv) = 3 /\ mEmail = Some(Str_email)
  /\ mPc = "finally" /\ mAttempt = courseIdMaxAttempts
  /\ mCourseId = Some(<<>>)
  /\ ~mManifest /\ ~mLanes

\* C22: the lane count handed to downloadTranscripts is an integer of at
\* least 1, and it is 5 when the operator typed nothing.
C22_LaneCountValid ==
  mPc \in {"launch", "loginNav", "login", "courseNav", "courseId", "fetch",
           "download"} =>
    /\ mTabCount # Null
    /\ Val(mTabCount) >= 1
    /\ trim(mTabAnswer) = <<>> => mTabCount = Some(5)

C33_LoginAfterNavigation ==
  /\ mPc = "loginNav" => mAttempt \in 0..1
  /\ (mPc = "loginNav" /\ mAttempt = 1) => ~mLoginPageLoaded
  /\ mPc = "login" => mLoginPageLoaded

\* C27: the fetch of the curriculum is attempted at most 3 times, with
\* the pause between two attempts; while the loop runs no attempt has
\* returned results, nothing is written and no lane started; the attempt
\* that returns results ends the loop, and the third attempt ends it in
\* any case: without results the run goes to the finally of main with no
\* manifest written and no lane started.
C27_FetchRetries ==
  /\ [](mPc \in {"fetch", "retryPause"} =>
          /\ mAttempt \in 1..3
          /\ ~hasResults(mCourseJson)
          /\ ~mManifest /\ ~mLanes)
  /\ [](mPc = "retryPause" => mAttempt < 3)
  /\ [](mPc = "download" => hasResults(mCourseJson))
  /\ []((mManifest \/ mLanes) => hasResults(mCourseJson))
  /\ [][/\ mPc = "fetch" =>
             /\ mPc' \in {"retryPause", "download", "finally"}
             /\ mAttempt' = mAttempt
             /\ hasResults(mCourseJson') => mPc' # "retryPause"
             /\ ~hasResults(mCourseJson') =>
                  /\ mPc' = IF mAttempt < 3 THEN "retryPause" ELSE "finally"
                  /\ ~mManifest' /\ ~mLanes'
        /\ mPc = "retryPause" =>
             (mPc' = "fetch" /\ mAttempt' = mAttempt + 1)]_vars

\* The third attempt has failed too: main is in its finally, with the
\* course id known, nothing written and no lane started.
C27_Witness ==
  /\ mPc = "finally"
  /\ mAttempt = 3
  /\ ~courseIdMissing(mCourseId)
  /\ ~hasResults(mCourseJson)
  /\ ~mManifest /\ ~mLanes

(***************************************************************************)
(* SpecManifest: generateContentsFile (index.js 353-379) on the structure  *)
(* of every bounded listing of titled chapters and video lectures.         *)
(***************************************************************************)
MaxManifestRecords == 3

\* new Date(created).toLocaleDateString() for a date YYYY-MM-DD, in the
\* en-US form M/D/YYYY.
toLocaleDateString(created) ==
  numberToString(NumberOf(SubSeq(created, 6, 7))) \o <<"/">>
    \o numberToString(NumberOf(SubSeq(created, 9, 10))) \o <<"/">>
    \o SubSeq(created, 1, 4)

\* ` [${timeInMinutes} min, ${date}]\n` (index.js 360-362 and 371-373)
lectureSuffix(lecture) ==
  <<" ", "[">> \o numberToString(lecture.timeEstimation \div 60)
    \o <<" ", "m", "i", "n", ",", " ">> \o toLocaleDateString(lecture.created)
    \o <<"]", "\n">>

\* index.js 362
chapterLectureLine(chapter, lecture) ==
  numberToString(chapter.index) \o <<".">> \o numberToString(lecture.lectureIndex)
    \o <<" ">> \o lecture.title \o lectureSuffix(lecture)

\* index.js 373
standaloneLine(lecture) ==
  numberToString(lecture.lectureIndex) \o <<".", " ">> \o lecture.title
    \o lectureSuffix(lecture)

\* A writer that puts no empty line behind a chapter.
chapterEnd_none == <<>>

\* index.js 365: the empty line behind the lectures of a chapter.
chapterEnd == <<"\n">>

\* index.js 356-366 for one chapter.
chapterBlock(chapter) ==
  numberToString(chapter.index) \o <<".", " ">> \o chapter.title \o <<"\n">>
    \o concat([p \in 1..Len(chapter.lectures) |->
                 chapterLectureLine(chapter, chapter.lectures[p])])
    \o chapterEnd

\* The text that generateContentsFile writes to CONTENTS.txt.
generateContentsFile(structure) ==
  concat([k \in 1..Len(structure.chapters) |-> chapterBlock(structure.chapters[k])])
    \o concat([p \in 1..Len(structure.lectures) |->
                 standaloneLine(structure.lectures[p])])

\* A plain title, and a title that holds a line break followed by what
\* the writer emits for a lecture.
Str_A == <<"A">>
Str_twoLines ==
  Str_A \o <<"\n">>
    \o <<"1", ".", "1", " ", "A", " ", "[", "1", " ", "m", "i", "n", ",", " ",
         "3", "/", "5", "/", "2", "0", "2", "4", "]">>
ManifestTitles == {Str_A, Str_twoLines}

ManifestKinds ==
  {[class |-> c, title |-> t, asset |-> IF c = "lecture" THEN VideoAsset ELSE Null] :
     c \in {"chapter", "lecture"}, t \in ManifestTitles}

ManifestIdle ==
  /\ gResults = <<>> /\ gStructure = EmptyStructure /\ gContent = <<>>
  /\ gPc = "idle"

ManifestInit ==
  /\ \E kinds \in SeqUpTo(ManifestKinds, MaxManifestRecords) :
       gResults = namesListing(kinds)
  /\ gStructure = EmptyStructure
  /\ gContent = <<>>
  /\ gPc = "input"

\* index.js 248-252.
ManifestCall ==
  /\ gPc = "input"
  /\ gStructure' = processCourseStructure(gResults)
  /\ gContent' = generateContentsFile(processCourseStructure(gResults))
  /\ gPc' = "written"
  /\ UNCHANGED gResults
  /\ UNCHANGED notManifest

(***************************************************************************)
(* Vocabulary of the claim about the manifest: a structural reading of     *)
(* the text.  A run of lines closed by an empty line is a chapter, its     *)
(* first line the heading and the others its lectures; the lines behind    *)
(* the last empty line are the standalone lectures.  Ordinals are the      *)
(* numbers in front of a line.                                             *)
(***************************************************************************)
\* The ordinal of a heading or standalone line `N. ...`, and that of a
\* chapter lecture line `N.M ...`.
FirstOrdinal(line) == NumberOf(leadingDigits(line))
SecondOrdinal(line) ==
  LET rest == SubSeq(line, Len(leadingDigits(line)) + 2, Len(line))
  IN NumberOf(leadingDigits(rest))

\* The lines of the text, without the empty string behind the last line
\* feed.
LinesOf(text) ==
  LET ls == split(text, <<"\n">>)
  IN IF ls[Len(ls)] = <<>> THEN SubSeq(ls, 1, Len(ls) - 1) ELSE ls

\* The reading of the lines from line n on, with the run of lines
\* `open` not yet closed.
RECURSIVE ReadLines(_, _, _, _)
ReadLines(ls, n, open, chapters) ==
  IF n > Len(ls)
  THEN [chapters |-> chapters,
        lectures |-> [p \in 1..Len(open) |-> FirstOrdinal(open[p])]]
  ELSE IF ls[n] = <<>>
  THEN ReadLines(ls, n + 1, <<>>,
         IF open = <<>> THEN chapters
         ELSE Append(chapters,
                [index |-> FirstOrdinal(open[1]),
                 lectures |-> [p \in 1..(Len(open) - 1) |->
                                 SecondOrdinal(open[p + 1])]]))
  ELSE ReadLines(ls, n + 1, Append(open, ls[n]), chapters)

ParseContents(text) == ReadLines(LinesOf(text), 1, <<>>, <<>>)

\* The chapters of a structure with their ordinals and the ordinals of
\* their lectures, and the ordinals of its standalone lectures.
ShapeOf(structure) ==
  [chapters |->
     [k \in 1..Len(structure.chapters) |->
        [index |-> structure.chapters[k].index,
         lectures |-> [p \in 1..Len(structure.chapters[k].lectures) |->
                         structure.chapters[k].lectures[p].lectureIndex]]],
   lectures |-> [p \in 1..Len(structure.lectures) |->
                   structure.lectures[p].lectureIndex]]

\* No title of the listing holds a line feed.
TitlesOnOneLine ==
  \A n \in 1..Len(gResults) :
    \A k \in 1..Len(gResults[n].title) : gResults[n].title[k] # "\n"

\* C20, as claimed: for every structure, the text of the manifest read
\* back gives the chapters, the lectures per chapter, the standalone
\* lectures and all ordinals of the structure.
C20_ManifestRoundTrip ==
  gPc = "written" => ParseContents(gContent) = ShapeOf(gStructure)

\* C20, amended: the same for every structure in which no title holds a
\* line feed.
C20_RoundTripOneLineTitles ==
  (gPc = "written" /\ TitlesOnOneLine) =>
    ParseContents(gContent) = ShapeOf(gStructure)

\* A manifest with a standalone lecture and a chapter of one lecture has
\* been written and reads back as such.
C20_Witness ==
  /\ gPc = "written"
  /\ TitlesOnOneLine
  /\ Len(gStructure.lectures) = 1
  /\ Len(gStructure.chapters) = 1
  /\ Len(gStructure.chapters[1].lectures) = 1
  /\ ParseContents(gContent) = ShapeOf(gStructure)

(***************************************************************************)
(* SpecToggle: the selector loop of processLecture (index.js 531-578) on a *)
(* lecture page whose transcript toggle flips the panel at every click.    *)
(* The page is part of the state: which selectors match the toggle, and    *)
(* whether the panel is visible.  No call on the page throws here.         *)
(***************************************************************************)
CoreIdle ==
  ChunkIdle /\ ResolveIdle /\ VttIdle /\ RunIdle /\ TsIdle /\ NamesIdle
    /\ MainIdle /\ ManifestIdle /\ LectureIdle

ToggleIdle ==
  /\ kMatches = {} /\ kPanelVisible = FALSE /\ kPc = "idle" /\ kSel = 0
  /\ kFound = FALSE

\* index.js 531-535: the loop starts at the first selector, on any page
\* with a toggle: the panel is hidden or visible (the player remembers
\* it), and any of the selectors may match the toggle.
ToggleInit ==
  /\ kMatches \in SUBSET transcriptButtonSelectors
  /\ kPanelVisible \in BOOLEAN
  /\ kPc = "exists" /\ kSel = 1 /\ kFound = FALSE

\* index.js 533 and 571: the loop takes the next selector or is over.
toggleNext ==
  IF kSel + 1 \in transcriptButtonSelectors
  THEN kPc' = "exists" /\ kSel' = kSel + 1
  ELSE kPc' = "done" /\ kSel' = kSel

\* index.js 536-541: document.querySelector(selector) finds the toggle or
\* nothing.
ToggleExists ==
  /\ kPc = "exists"
  /\ IF kSel \in kMatches THEN kPc' = "click" /\ kSel' = kSel ELSE toggleNext
  /\ UNCHANGED <<kMatches, kPanelVisible, kFound>>
  /\ UNCHANGED notToggle

\* index.js 544-548: element.click() on the toggle flips the panel, and the
\* delay of 1500 ms passes.
ToggleClick ==
  /\ kPc = "click"
  /\ kPanelVisible' = ~kPanelVisible
  /\ kPc' = "visible"
  /\ UNCHANGED <<kMatches, kSel, kFound>>
  /\ UNCHANGED notToggle

\* index.js 551-562: the panel is visible, and the loop is left with
\* transcriptButtonFound set; or it is hidden, and the loop goes on.
ToggleVisible ==
  /\ kPc = "visible"
  /\ IF kPanelVisible
     THEN kFound' = TRUE /\ kPc' = "done" /\ kSel' = kSel
     ELSE toggleNext /\ UNCHANGED kFound
  /\ UNCHANGED <<kMatches, kPanelVisible>>
  /\ UNCHANGED notToggle

\* C31: on a page with a toggle that at least one selector matches, the
\* selector loop ends with the panel visible and transcriptButtonFound
\* true, whatever the panel was at the start and however many selectors
\* match.
C31_ToggleEndsVisible ==
  (kPc = "done" /\ kMatches # {}) => (kPanelVisible /\ kFound)


(***************************************************************************)
(* SpecCues: the subtitle generation from the cues of the transcript panel *)
(* (unnamed/part_003 451-511): every cue is clicked and the time the       *)
(* player shows is read as its start; the duration of the video ends the   *)
(* last cue.                                                               *)
(***************************************************************************)
MaxCues == 2

\* What the time elements of the player can show: M:SS below and above an
\* hour of minutes, and H:MM:SS.
PlayerTimes ==
  {<<"0", ":", "0", "5">>, <<"1", ":", "0", "7">>, <<"7", "5", ":", "3", "0">>,
   <<"1", ":", "0", "2", ":", "0", "3">>}

Str_0_00 == <<"0", ":", "0", "0">>

\* Number(s) || 0 for a string without sign, point or white space: the
\* empty string is 0 and a string with another character is NaN.
numberOr0(s) == IF \A k \in 1..Len(s) : IsDigit(s[k]) THEN NumberOf(s) ELSE 0

\* part_003 267-274
toSrtTimestamp(timeString) ==
  LET parts == split(timeString, <<":">>)
      min == numberOr0(parts[1])
      sec == IF Len(parts) >= 2 THEN numberOr0(parts[2]) ELSE 0
      totalSeconds == min * 60 + sec
      hours == totalSeconds \div 3600
      minutes == (totalSeconds % 3600) \div 60
      seconds == totalSeconds % 60
  IN padStart(numberToString(hours), 2, "0") \o <<":">>
       \o padStart(numberToString(minutes), 2, "0") \o <<":">>
       \o padStart(numberToString(seconds), 2, "0") \o <<",">> \o Str_000

\* x || '0:00'
orZero(time) == IF time = Null \/ Val(time) = <<>> THEN Str_0_00 ELSE Val(time)

\* part_003 489-499: cues.map
srtDataOf(cues, finalEnd) ==
  [i \in 1..Len(cues) |->
     [index |-> i,
      start |-> toSrtTimestamp(orZero(cues[i])),
      end |-> toSrtTimestamp(orZero(IF i < Len(cues) THEN cues[i + 1]
                                     ELSE finalEnd))]]

CuesIdle ==
  /\ qCount = 0 /\ qCues = <<>> /\ qFinalEnd = Null /\ qSrtData = <<>>
  /\ qPc = "idle"

\* part_003 455-457: the panel holds some cues.
CuesInit ==
  /\ qCount \in 0..MaxCues
  /\ qCues = <<>> /\ qFinalEnd = Null /\ qSrtData = <<>>
  /\ qPc = "cues"

\* part_003 461-479: the next cue is clicked and the current time of the
\* player, if the element is there, is pushed as its start.
ReadCue ==
  /\ qPc = "cues"
  /\ Len(qCues) < qCount
  /\ \E start \in {Null} \cup {Some(t) : t \in PlayerTimes} :
       qCues' = Append(qCues, start)
  /\ UNCHANGED <<qCount, qFinalEnd, qSrtData, qPc>>
  /\ UNCHANGED notCues

\* part_003 482-499: behind the last cue the duration is read and the
\* records of the subtitle file are built.
BuildSrt ==
  /\ qPc = "cues"
  /\ Len(qCues) = qCount
  /\ \E finalEnd \in {Null} \cup {Some(t) : t \in PlayerTimes} :
       /\ qFinalEnd' = finalEnd
       /\ qSrtData' = srtDataOf(qCues, finalEnd)
  /\ qPc' = "built"
  /\ UNCHANGED <<qCount, qCues>>
  /\ UNCHANGED notCues

\* C34: every record starts at the instant the player showed for its cue
\* (M:SS or H:MM:SS, as HH:MM:SS,000), ends where the next record starts,
\* the last one at the duration of the video, and the records are
\* numbered 1..N.
C34_CueTimestamps ==
  qPc = "built" =>
    /\ Len(qSrtData) = qCount
    /\ \A i \in 1..Len(qSrtData) :
         LET c == qSrtData[i]
         IN /\ c.index = i
            /\ IsFixedForm(c.start) /\ IsFixedForm(c.end)
            /\ InstantOfFixed(c.start) = InstantOfGrammar(orZero(qCues[i]))
            /\ i < Len(qSrtData) => c.end = qSrtData[i + 1].start
            /\ i = Len(qSrtData) =>
                 InstantOfFixed(c.end) = InstantOfGrammar(orZero(qFinalEnd))

(***************************************************************************)
(* SpecServer: the session map of server/api.js under requests to          *)
(* /api/login and /api/download/start and the timers of the simulated      *)
(* download.  Session objects live on a heap (sObjects) and the map holds  *)
(* references to them, as in JavaScript; keys are values of Date.now().    *)
(***************************************************************************)
MaxRequests == 2     \* requests that are answered with success
MaxClock == 1        \* milliseconds that pass in a run

\* Math.random() * 20 is in [0, 20): its ends and a value between.
RandomSteps == {0, 10, 19}

\* Math.floor(Math.random() * 20) + 5 is in 5..24: its ends.
FileCounts == {5, 24}

\* The status texts of api.js 170, 223 and 230.
statusStarting == [text |-> "starting", percent |-> 0]
statusDownloading(progress) == [text |-> "Downloading", percent |-> progress]
statusCompleted == [text |-> "Download completed successfully!", percent |-> 100]

\* The object of api.js 143, which has none of the fields of a download.
loginSession ==
  [kind |-> "login", status |-> Null, progress |-> Null, completed |-> Null,
   fileCount |-> Null]

\* The object of api.js 169-177.
downloadSession ==
  [kind |-> "download", status |-> Some(statusStarting), progress |-> Some(0),
   completed |-> Some(FALSE), fileCount |-> Null]

ServerIdle ==
  /\ sNow = 0 /\ sObjects = <<>> /\ sSessions = <<>> /\ sTimeouts = <<>>
  /\ sIntervals = <<>> /\ sReplies = <<>>

\* api.js 18 and 457: the server listens with an empty map.
ServerInit == ServerIdle

\* Map.prototype.set on downloadSessions, a function from keys to
\* references.
mapSet(map, key, ref) ==
  [k \in DOMAIN map \cup {key} |-> IF k = key THEN ref ELSE map[k]]

\* Date.now() has moved on by a millisecond.
ClockTick ==
  /\ sNow < MaxClock
  /\ sNow' = sNow + 1
  /\ UNCHANGED <<sObjects, sSessions, sTimeouts, sIntervals, sReplies>>
  /\ UNCHANGED notServer

\* api.js 141-149: the login has succeeded; the session is stored under
\* Date.now() and the key is sent back.  (A login that fails changes
\* nothing.)
LoginStored ==
  /\ Len(sReplies) < MaxRequests
  /\ sObjects' = Append(sObjects, loginSession)
  /\ sSessions' = mapSet(sSessions, sNow, Len(sObjects) + 1)
  /\ sReplies' = Append(sReplies, [kind |-> "login", id |-> sNow,
                                   session |-> Len(sObjects) + 1])
  /\ UNCHANGED <<sNow, sTimeouts, sIntervals>>
  /\ UNCHANGED notServer

\* api.js 157-188: a download is started; its session is stored under
\* Date.now(), the start of the simulation is scheduled, and the key is
\* sent back.
DownloadStart ==
  /\ Len(sReplies) < MaxRequests
  /\ sObjects' = Append(sObjects, downloadSession)
  /\ sSessions' = mapSet(sSessions, sNow, Len(sObjects) + 1)
  /\ sTimeouts' = Append(sTimeouts, sNow)
  /\ sReplies' = Append(sReplies, [kind |-> "download", id |-> sNow,
                                   session |-> Len(sObjects) + 1])
  /\ UNCHANGED <<sNow, sIntervals>>
  /\ UNCHANGED notServer

\* api.js 180-182 and 215-220: the oldest timeout fires, a second after
\* it was set (its download id is the time at which it was set);
\* simulateDownloadProgress looks the session up and starts its interval
\* with progress 0.
SimulateStart ==
  /\ sTimeouts # <<>>
  /\ sNow > Head(sTimeouts)
  /\ LET downloadId == Head(sTimeouts)
     IN sIntervals' = Append(sIntervals, [downloadId |-> downloadId,
                                          session |-> sSessions[downloadId],
                                          progress |-> 0, cleared |-> FALSE])
  /\ sTimeouts' = Tail(sTimeouts)
  /\ UNCHANGED <<sNow, sObjects, sSessions, sReplies>>
  /\ UNCHANGED notServer

\* api.js 222 and 227: the branch that ends the simulation.
clearsInterval(progress) == progress >= 100

\* api.js 220-233: one run of the callback of the interval n.
IntervalTick(n) ==
  /\ n \in 1..Len(sIntervals)
  /\ ~sIntervals[n].cleared
  /\ \E step \in RandomSteps, fileCount \in FileCounts :
       LET timer == sIntervals[n]
           raw == timer.progress + step
           done == clearsInterval(raw)
           progress == IF raw >= 100 THEN 100 ELSE raw
           old == sObjects[timer.session]
           session ==
             [old EXCEPT
                !.completed = IF raw >= 100 THEN Some(TRUE) ELSE @,
                !.fileCount = IF raw >= 100 THEN Some(fileCount) ELSE @,
                !.progress = Some(progress),
                !.status = Some(IF progress < 100 THEN statusDownloading(progress)
                                ELSE statusCompleted)]
       IN /\ (raw < 100 => fileCount = 5)
          /\ sIntervals' = [sIntervals EXCEPT ![n].progress = progress,
                                              ![n].cleared = done]
          /\ sObjects' = [sObjects EXCEPT ![timer.session] = session]
          /\ sSessions' = mapSet(sSessions, timer.downloadId, timer.session)
  /\ UNCHANGED <<sNow, sTimeouts, sReplies>>
  /\ UNCHANGED notServer

\* api.js 196-212: the answer to GET /api/download/progress/:downloadId.
progressReply(downloadId) ==
  IF downloadId \notin DOMAIN sSessions THEN [code |-> 404, body |-> Null]
  ELSE LET session == sObjects[sSessions[downloadId]]
       IN [code |-> 200,
           body |-> Some([progress |-> session.progress,
                          status |-> session.status,
                          completed |-> session.completed,
                          fileCount |-> IF session.fileCount = Null THEN Some(0)
                                        ELSE session.fileCount])]

\* The session objects that were created for downloads.
DownloadObjects == {i \in 1..Len(sObjects) : sObjects[i].kind = "download"}

\* C35: the progress of every simulated download session is in 0..100
\* and never decreases, completed is true exactly when progress is 100,
\* and once completed is true every timer on the session is cleared and
\* the session does not change again.
C35_SimulatedProgress ==
  /\ [](\A i \in DownloadObjects :
          LET session == sObjects[i]
          IN /\ Val(session.progress) \in 0..100
             /\ Val(session.completed) <=> Val(session.progress) = 100
             /\ Val(session.completed) =>
                  \A n \in 1..Len(sIntervals) :
                     sIntervals[n].session = i => sIntervals[n].cleared)
  /\ [][\A i \in DownloadObjects :
          /\ Val(sObjects'[i].progress) >= Val(sObjects[i].progress)
          /\ Val(sObjects[i].completed) => sObjects'[i] = sObjects[i]]_vars

\* C36: the keys sent back to successful requests are pairwise different,
\* and the map keeps under each of them the session that was stored for
\* that request, which is what a progress query with the key reads.
C36_OwnKeys ==
  /\ \A i, j \in 1..Len(sReplies) : i # j => sReplies[i].id # sReplies[j].id
  /\ \A i \in 1..Len(sReplies) :
       LET reply == sReplies[i]
           own == sObjects[reply.session]
       IN /\ sSessions[reply.id] = reply.session
          /\ reply.kind = "download" =>
               /\ progressReply(reply.id).code = 200
               /\ Val(progressReply(reply.id).body).progress = own.progress
               /\ Val(progressReply(reply.id).body).status = own.status
               /\ Val(progressReply(reply.id).body).completed = own.completed

(***************************************************************************)
(* SpecDash: the Dashboard component (components/Dashboard.js) from the    *)
(* click on the start button to the end of the polling.  The server is the *)
(* environment: every request ends with any of the answers fetch can give. *)
(***************************************************************************)
\* What the operator can have typed into the URL field: nothing, a text
\* that validateCourseUrl rejects, and a course URL.
CourseUrls == {"", "not a course", "https://www.udemy.com/course/c/"}

\* Dashboard.js 35-39
validateCourseUrl(url) == url = "https://www.udemy.com/course/c/"

\* The values of data.progress the model lets the server send.
ProgressValues == {0, 50, 100}

\* The answers to GET /api/download/progress: the request fails or the
\* body is no JSON; a status outside 200-299; a body with completed, with
\* an error, or with neither.
PollAnswers == {"threw", "notOk", "completed", "error", "running"}

DashIdle ==
  /\ dCourseUrl = "" /\ dIsProcessing = FALSE /\ dProgress = 0 /\ dError = ""
  /\ dHistory = 0 /\ dRequest = "unmounted"

\* Dashboard.js 7-16: the component is mounted with a token in the
\* session storage.
DashInit ==
  /\ dCourseUrl = "" /\ dIsProcessing = FALSE /\ dProgress = 0 /\ dError = ""
  /\ dHistory = 0 /\ dRequest = "none"

\* Dashboard.js 41-44 and 243: the operator edits the URL field, which is
\* disabled while a download is processed.
HandleUrlChange ==
  /\ dRequest # "unmounted"
  /\ ~dIsProcessing
  /\ \E url \in CourseUrls : dCourseUrl' = url
  /\ dError' = ""
  /\ UNCHANGED <<dIsProcessing, dProgress, dHistory, dRequest>>
  /\ UNCHANGED notDash

\* Dashboard.js 53-86 and 257: the click on the start button, which is
\* disabled while a download is processed and without a URL.
HandleStartDownload ==
  /\ dRequest # "unmounted"
  /\ ~dIsProcessing /\ dCourseUrl # ""
  /\ IF ~validateCourseUrl(dCourseUrl)
     THEN /\ dError' = "Please enter a valid Udemy or LinkedIn Learning course URL"
          /\ UNCHANGED <<dIsProcessing, dProgress, dRequest>>
     ELSE /\ dIsProcessing' = TRUE
          /\ dProgress' = 0
          /\ dError' = ""
          /\ dRequest' = "start"
  /\ UNCHANGED <<dCourseUrl, dHistory>>
  /\ UNCHANGED notDash

\* Dashboard.js 73-98 and 149-158: the answer to the start request.  With
\* a download id the first poll is sent; otherwise the error is shown.
StartAnswered ==
  /\ dRequest = "start"
  /\ \E ok \in BOOLEAN :
       IF ok
       THEN dRequest' = "poll" /\ UNCHANGED <<dIsProcessing, dError>>
       ELSE /\ dError' = "Failed to start download"
            /\ dIsProcessing' = FALSE
            /\ dRequest' = "none"
  /\ UNCHANGED <<dCourseUrl, dProgress, dHistory>>
  /\ UNCHANGED notDash

\* Dashboard.js 160 and 192: `if (response.ok)` has no else.
afterNotOk == "none"

\* Dashboard.js 153-197: the answer to a poll.
PollAnswered ==
  /\ dRequest = "poll"
  /\ \E answer \in PollAnswers, progress \in ProgressValues :
       CASE answer = "threw" ->
              /\ progress = 0
              /\ dError' = "Failed to get download progress"
              /\ dIsProcessing' = FALSE
              /\ dRequest' = "none"
              /\ UNCHANGED <<dCourseUrl, dProgress, dHistory>>
         [] answer = "notOk" ->
              /\ progress = 0
              /\ dRequest' = afterNotOk
              /\ UNCHANGED <<dCourseUrl, dIsProcessing, dProgress, dError,
                             dHistory>>
         [] answer = "completed" ->
              /\ dProgress' = progress
              /\ dIsProcessing' = FALSE
              /\ dHistory' = (IF dHistory > 9 THEN 9 ELSE dHistory) + 1
              /\ dCourseUrl' = ""
              /\ dRequest' = "none"
              /\ UNCHANGED dError
         [] answer = "error" ->
              /\ dProgress' = progress
              /\ dError' = "data.error"
              /\ dIsProcessing' = FALSE
              /\ dRequest' = "none"
              /\ UNCHANGED <<dCourseUrl, dHistory>>
         [] answer = "running" ->
              /\ dProgress' = progress
              /\ dRequest' = "timer"
              /\ UNCHANGED <<dCourseUrl, dIsProcessing, dError, dHistory>>
  /\ UNCHANGED notDash

\* Dashboard.js 190: the timeout of 2 s is over and the next poll is sent.
PollTimer ==
  /\ dRequest = "timer"
  /\ dRequest' = "poll"
  /\ UNCHANGED <<dCourseUrl, dIsProcessing, dProgress, dError, dHistory>>
  /\ UNCHANGED notDash

\* C37: while the Dashboard is processing, the start request or a poll is
\* in flight or the timer of the next poll is set, whatever the progress
\* endpoint answers.
C37_PollPending ==
  dIsProcessing => dRequest \in {"start", "poll", "timer"}

(***************************************************************************)
(* SpecLegacy: the download loop of the legacy endpoint POST /api/download *)
(* (server/api.js 279-295 and 337-391) on the lecture links of one course. *)
(***************************************************************************)
MaxLinks == 5

LegacyIdle ==
  /\ lTotal = 0 /\ lI = 0 /\ lCompleted = 0 /\ lStatus = "none" /\ lErrors = 0

\* api.js 275-295 and 338-343: the course page lists some lecture links
\* (without one the request ends with 404); downloadProgress is stored
\* and the loop starts.
LegacyInit ==
  /\ lTotal \in 1..MaxLinks
  /\ lI = 0 /\ lCompleted = 0 /\ lStatus = "downloading" /\ lErrors = 0

\* api.js 344-386: one pass of the loop.  The navigation, the click or
\* the write throws, and the catch logs it; or the pass gets as far as the
\* update of the progress and the delay.
LegacyLecture ==
  /\ lStatus = "downloading"
  /\ lI < lTotal
  /\ \E threw \in BOOLEAN :
       IF threw
       THEN lErrors' = lErrors + 1 /\ UNCHANGED lCompleted
       ELSE lCompleted' = lI + 1 /\ UNCHANGED lErrors
  /\ lI' = lI + 1
  /\ UNCHANGED <<lTotal, lStatus>>
  /\ UNCHANGED notLegacy

\* api.js 388-390: behind the loop.
LegacyDone ==
  /\ lStatus = "downloading"
  /\ lI = lTotal
  /\ lStatus' = "completed"
  /\ UNCHANGED <<lTotal, lI, lCompleted, lErrors>>
  /\ UNCHANGED notLegacy

\* C38: downloadProgress.completed never decreases and never exceeds
\* total; status is 'completed' only behind the pass of the last link, and
\* then completed equals total, with or without errors on the way.
C38_LegacyProgress ==
  /\ [](/\ lCompleted <= lTotal
        /\ lStatus = "completed" => (lI = lTotal /\ lCompleted = lTotal))
  /\ [][lCompleted' >= lCompleted]_vars

(***************************************************************************)
(* SpecAuth: the login form of the web front end (unnamed/part_001, the    *)
(* AuthForm component), the two endpoints it calls (server/api.js 63-99)   *)
(* and the guard of the Dashboard (Dashboard.js 20-33).                    *)
(***************************************************************************)
\* What the operator can have typed into the two fields.
EmailInputs ==
  {<<>>, <<" ">>, <<"a">>, <<"a", "@", "b">>, <<"a", "@", "b", ".", "c">>}

CodeInputs ==
  {<<>>, <<"1", "2", "3", "4", "5">>, <<"1", "2", "3", "4", "5", "6">>,
   <<"1", "2", "3", "4", "5", "x">>}

\* part_001 26-29: /^[^\s@]+@[^\s@]+\.[^\s@]+$/
validateEmail(email) ==
  /\ \A k \in 1..Len(email) : ~IsWhitespace(email[k])
  /\ Cardinality({k \in 1..Len(email) : email[k] = "@"}) = 1
  /\ LET at == CHOOSE k \in 1..Len(email) : email[k] = "@"
     IN /\ at > 1
        /\ \E dot \in (at + 2)..(Len(email) - 1) : email[dot] = "."

\* part_001 31-35 and api.js 87: /^\d{6}$/
validateMfaCode(code) == Len(code) = 6 /\ \A k \in 1..6 : IsDigit(code[k])

\* api.js 64-76: the status of the answer to POST /api/auth/request-mfa.
requestMfaStatus(email) == IF email = <<>> THEN 400 ELSE 200

\* api.js 79-99: the status of the answer to POST /api/auth/verify-mfa.
verifyMfaStatus(email, mfaCode) ==
  IF email = <<>> \/ mfaCode = <<>> THEN 400
  ELSE IF ~validateMfaCode(mfaCode) THEN 400
  ELSE 200

\* A front end that takes every answer for a success.
responseOk_always(status) == TRUE

\* response.ok of fetch (part_001 63 and 105)
responseOk(status) == status \in 200..299

\* A fresh AuthForm (part_001 7-13).
authFormMounted ==
  /\ aStep' = "email" /\ aEmail' = <<>> /\ aMfaCode' = <<>>
  /\ aIsLoading' = FALSE /\ aError' = "" /\ aRequest' = "none"

AuthIdle ==
  /\ aRoute = "none" /\ aStep = "email" /\ aEmail = <<>> /\ aMfaCode = <<>>
  /\ aIsLoading = FALSE /\ aError = "" /\ aRequest = "none" /\ aLast = 0
  /\ aToken = Null

\* The application is opened at "/" in a session without a token.
AuthInit ==
  /\ aRoute = "/" /\ aStep = "email" /\ aEmail = <<>> /\ aMfaCode = <<>>
  /\ aIsLoading = FALSE /\ aError = "" /\ aRequest = "none" /\ aLast = 0
  /\ aToken = Null

\* part_001 16-24: the operator fills the field of the current step; the
\* fields are disabled while a request is loading.
HandleInputChange ==
  /\ aRoute = "/" /\ ~aIsLoading
  /\ IF aStep = "email"
     THEN (\E value \in EmailInputs : aEmail' = value) /\ UNCHANGED aMfaCode
     ELSE (\E value \in CodeInputs : aMfaCode' = value) /\ UNCHANGED aEmail
  /\ aError' = ""
  /\ UNCHANGED <<aRoute, aStep, aIsLoading, aRequest, aLast, aToken>>
  /\ UNCHANGED notAuth

\* part_001 37-61: the e-mail form is submitted (by its button, which is
\* disabled while loading and with a blank field, or by the Enter key).
HandleEmailSubmit ==
  /\ aRoute = "/" /\ aStep = "email" /\ ~aIsLoading
  /\ IF trim(aEmail) = <<>>
     THEN aError' = "Please enter your email address"
          /\ UNCHANGED <<aIsLoading, aRequest>>
     ELSE IF ~validateEmail(aEmail)
     THEN aError' = "Please enter a valid email address"
          /\ UNCHANGED <<aIsLoading, aRequest>>
     ELSE aIsLoading' = TRUE /\ aError' = "" /\ aRequest' = "request-mfa"
  /\ UNCHANGED <<aRoute, aStep, aEmail, aMfaCode, aLast, aToken>>
  /\ UNCHANGED notAuth

\* part_001 63-73: the answer to the request for a code, or none.
RequestMfaAnswered ==
  /\ aRequest = "request-mfa"
  /\ \E status \in {0, 500, requestMfaStatus(aEmail)} :
       /\ aLast' = status
       /\ IF status = 0
          THEN aError' = "Network error" /\ UNCHANGED aStep
          ELSE IF responseOk(status)
          THEN aStep' = "mfa" /\ UNCHANGED aError
          ELSE aError' = "Failed to send verification code" /\ UNCHANGED aStep
  /\ aIsLoading' = FALSE
  /\ aRequest' = "none"
  /\ UNCHANGED <<aRoute, aEmail, aMfaCode, aToken>>
  /\ UNCHANGED notAuth

\* part_001 76-103: the code form is submitted.
HandleMfaSubmit ==
  /\ aRoute = "/" /\ aStep = "mfa" /\ ~aIsLoading
  /\ IF trim(aMfaCode) = <<>>
     THEN aError' = "Please enter the verification code"
          /\ UNCHANGED <<aIsLoading, aRequest>>
     ELSE IF ~validateMfaCode(aMfaCode)
     THEN aError' = "Please enter a valid 6-digit verification code"
          /\ UNCHANGED <<aIsLoading, aRequest>>
     ELSE aIsLoading' = TRUE /\ aError' = "" /\ aRequest' = "verify-mfa"
  /\ UNCHANGED <<aRoute, aStep, aEmail, aMfaCode, aLast, aToken>>
  /\ UNCHANGED notAuth

\* part_001 105-121: the answer to the verification, or none.  On success
\* the token is stored and the Dashboard is rendered; its effect has not
\* run yet.
VerifyMfaAnswered ==
  /\ aRequest = "verify-mfa"
  /\ \E status \in {0, 500, verifyMfaStatus(aEmail, aMfaCode)} :
       /\ aLast' = status
       /\ IF status = 0
          THEN aError' = "Network error" /\ UNCHANGED <<aToken, aRoute>>
          ELSE IF responseOk(status)
          THEN /\ aToken' = Some(aEmail)
               /\ aRoute' = "/dashboard (mounting)"
               /\ UNCHANGED aError
          ELSE aError' = "Invalid verification code"
               /\ UNCHANGED <<aToken, aRoute>>
  /\ aIsLoading' = FALSE
  /\ aRequest' = "none"
  /\ UNCHANGED <<aStep, aEmail, aMfaCode>>
  /\ UNCHANGED notAuth

\* part_001 124-128
HandleBackToEmail ==
  /\ aRoute = "/" /\ aStep = "mfa" /\ ~aIsLoading
  /\ aStep' = "email"
  /\ aMfaCode' = <<>>
  /\ aError' = ""
  /\ UNCHANGED <<aRoute, aEmail, aIsLoading, aRequest, aLast, aToken>>
  /\ UNCHANGED notAuth

\* The operator opens /dashboard by its address (App.js 21-22).
OpenDashboard ==
  /\ aRoute = "/" /\ aRequest = "none"
  /\ aRoute' = "/dashboard (mounting)"
  /\ UNCHANGED <<aStep, aEmail, aMfaCode, aIsLoading, aError, aRequest, aLast,
                 aToken>>
  /\ UNCHANGED notAuth

\* Dashboard.js 20-27: the effect that runs when the Dashboard is mounted.
DashboardEffect ==
  /\ aRoute = "/dashboard (mounting)"
  /\ IF aToken = Null
     THEN aRoute' = "/" /\ authFormMounted
     ELSE aRoute' = "/dashboard"
          /\ UNCHANGED <<aStep, aEmail, aMfaCode, aIsLoading, aError, aRequest>>
  /\ UNCHANGED <<aLast, aToken>>
  /\ UNCHANGED notAuth

\* Dashboard.js 200-204
HandleLogout ==
  /\ aRoute = "/dashboard"
  /\ aToken' = Null
  /\ aRoute' = "/"
  /\ authFormMounted
  /\ UNCHANGED aLast
  /\ UNCHANGED notAuth

\* C39: the form goes from the e-mail step to the code step only on a
\* successful answer to request-mfa; the token is stored and the
\* Dashboard entered only on a successful answer to verify-mfa for a code
\* of six digits; a submission that ends with an error message leaves
\* step and token as they are; and the effect of the Dashboard leads back
\* to the form when no token is stored, so that the Dashboard stays only
\* with a token.
C39_AuthFlow ==
  /\ [](aRoute = "/dashboard" => aToken # Null)
  /\ [][/\ (aStep = "email" /\ aStep' = "mfa") =>
            (aRequest = "request-mfa" /\ aLast' \in 200..299)
        /\ (aToken' # Null /\ aToken' # aToken) =>
            /\ aRequest = "verify-mfa" /\ aLast' \in 200..299
            /\ Len(aMfaCode) = 6 /\ \A k \in 1..6 : IsDigit(aMfaCode[k])
            /\ aRoute' = "/dashboard (mounting)"
        /\ (aRoute = "/dashboard (mounting)" /\ aToken = Null) => aRoute' = "/"
        /\ (aError' # "" /\ aError' # aError) =>
            (aStep' = aStep /\ aToken' = aToken /\ aRoute' = aRoute)]_vars

\* A code of six digits was verified: the token is stored and the
\* Dashboard has run its effect.
C39_Witness ==
  /\ aRoute = "/dashboard" /\ aToken # Null /\ aStep = "mfa"
  /\ aLast = 200 /\ validateMfaCode(aMfaCode)

LateIdle ==
  ToggleIdle /\ CuesIdle /\ ServerIdle /\ DashIdle /\ LegacyIdle /\ AuthIdle

(***************************************************************************)
(* The specifications.                                                     *)
(***************************************************************************)
ChunkNext == ChunkCall

InitChunk ==
  ChunkInit /\ ResolveIdle /\ VttIdle /\ RunIdle /\ TsIdle /\ NamesIdle /\ MainIdle
    /\ ManifestIdle /\ LectureIdle /\ LateIdle

SpecChunk == InitChunk /\ [][ChunkNext]_vars

ResolveNext == ResolveCall

InitResolve ==
  ResolveInit /\ ChunkIdle /\ VttIdle /\ RunIdle /\ TsIdle /\ NamesIdle /\ MainIdle
    /\ ManifestIdle /\ LectureIdle /\ LateIdle

SpecResolve == InitResolve /\ [][ResolveNext]_vars

VttNext == VttCall

InitVtt ==
  VttInit /\ ChunkIdle /\ ResolveIdle /\ RunIdle /\ TsIdle /\ NamesIdle /\ MainIdle
    /\ ManifestIdle /\ LectureIdle /\ LateIdle

SpecVtt == InitVtt /\ [][VttNext]_vars

TsNext == TsCall \/ TsCallAgain

InitTs ==
  TsInit /\ ChunkIdle /\ ResolveIdle /\ VttIdle /\ RunIdle /\ NamesIdle /\ MainIdle
    /\ ManifestIdle /\ LectureIdle /\ LateIdle

SpecTs == InitTs /\ [][TsNext]_vars

NamesNext == NamesCall

InitNames ==
  NamesInit /\ ChunkIdle /\ ResolveIdle /\ VttIdle /\ RunIdle /\ TsIdle /\ MainIdle
    /\ ManifestIdle /\ LectureIdle /\ LateIdle

SpecNames == InitNames /\ [][NamesNext]_vars

FaultNext ==
  \/ FanOut
  \/ JoinAll
  \/ JoinRejects
  \/ BrowserClose
  \/ \E j \in Lanes : NewPage(j)
  \/ \E j \in Lanes : NewPageRejects(j)
  \/ \E j \in Lanes : Goto(j)
  \/ \E j \in Lanes : TrySelector(j)
  \/ \E j \in Lanes : ReadText(j)
  \/ \E j \in Lanes : WriteFails(j)
  \/ \E j \in Lanes : Captions(j)
  \/ \E j \in Lanes : ClosePage(j)
  \/ \E j \in Lanes : ClosePageRejects(j)

InitFaults ==
  FaultInit /\ ChunkIdle /\ ResolveIdle /\ VttIdle /\ TsIdle /\ NamesIdle
    /\ MainIdle /\ ManifestIdle /\ LectureIdle /\ LateIdle

SpecFaults == InitFaults /\ [][FaultNext]_vars

MainNext ==
  \/ MainStart
  \/ Prompts
  \/ Launch
  \/ LoginNav
  \/ Login
  \/ CourseNav
  \/ CourseIdAttempt
  \/ FetchAttempt \/ FetchPause
  \/ Download
  \/ Finally

InitMain ==
  MainInit /\ ChunkIdle /\ ResolveIdle /\ VttIdle /\ RunIdle /\ TsIdle
    /\ NamesIdle /\ ManifestIdle /\ LectureIdle /\ LateIdle

SpecMain == InitMain /\ [][MainNext]_vars

ManifestNext == ManifestCall

InitManifest ==
  ManifestInit /\ ChunkIdle /\ ResolveIdle /\ VttIdle /\ RunIdle /\ TsIdle
    /\ NamesIdle /\ MainIdle /\ LectureIdle /\ LateIdle

SpecManifest == InitManifest /\ [][ManifestNext]_vars

LectureNext ==
  \/ PageGoto \/ WaitForVideo \/ Delay \/ ButtonExists \/ ClickButton
  \/ PanelVisible \/ ReadPanel \/ CaptionsStep

InitLecture ==
  LectureInit /\ ChunkIdle /\ ResolveIdle /\ VttIdle /\ RunIdle /\ TsIdle
    /\ NamesIdle /\ MainIdle /\ ManifestIdle /\ LateIdle

SpecLecture == InitLecture /\ [][LectureNext]_vars

ToggleNext == ToggleExists \/ ToggleClick \/ ToggleVisible

InitToggle ==
  ToggleInit /\ CoreIdle /\ CuesIdle /\ ServerIdle /\ DashIdle
    /\ LegacyIdle /\ AuthIdle

SpecToggle == InitToggle /\ [][ToggleNext]_vars

CuesNext == ReadCue \/ BuildSrt

InitCues ==
  CuesInit /\ CoreIdle /\ ToggleIdle /\ ServerIdle /\ DashIdle
    /\ LegacyIdle /\ AuthIdle

SpecCues == InitCues /\ [][CuesNext]_vars

ServerNext ==
  \/ ClockTick
  \/ LoginStored
  \/ DownloadStart
  \/ SimulateStart
  \/ \E n \in 1..MaxRequests : IntervalTick(n)

InitServer ==
  ServerInit /\ CoreIdle /\ ToggleIdle /\ CuesIdle /\ DashIdle
    /\ LegacyIdle /\ AuthIdle

SpecServer == InitServer /\ [][ServerNext]_vars

DashNext ==
  \/ HandleUrlChange \/ HandleStartDownload \/ StartAnswered \/ PollAnswered
  \/ PollTimer

InitDash ==
  DashInit /\ CoreIdle /\ ToggleIdle /\ CuesIdle /\ ServerIdle
    /\ LegacyIdle /\ AuthIdle

SpecDash == InitDash /\ [][DashNext]_vars

LegacyNext == LegacyLecture \/ LegacyDone

InitLegacy ==
  LegacyInit /\ CoreIdle /\ ToggleIdle /\ CuesIdle /\ ServerIdle /\ DashIdle
    /\ AuthIdle

SpecLegacy == InitLegacy /\ [][LegacyNext]_vars

AuthNext ==
  \/ HandleInputChange \/ HandleEmailSubmit \/ RequestMfaAnswered
  \/ HandleMfaSubmit \/ VerifyMfaAnswered \/ HandleBackToEmail
  \/ OpenDashboard \/ DashboardEffect \/ HandleLogout

InitAuth ==
  AuthInit /\ CoreIdle /\ ToggleIdle /\ CuesIdle /\ ServerIdle /\ DashIdle
    /\ LegacyIdle

SpecAuth == InitAuth /\ [][AuthNext]_vars

Init ==
  RunInit /\ ChunkIdle /\ ResolveIdle /\ VttIdle /\ TsIdle /\ NamesIdle /\ MainIdle
    /\ ManifestIdle /\ LectureIdle /\ LateIdle

Next ==
  \/ FanOut
  \/ JoinAll
  \/ BrowserClose
  \/ \E j \in Lanes : NewPage(j)
  \/ \E j \in Lanes : Goto(j)
  \/ \E j \in Lanes : TrySelector(j)
  \/ \E j \in Lanes : ReadText(j)
  \/ \E j \in Lanes : Captions(j)
  \/ \E j \in Lanes : ClosePage(j)

Spec == Init /\ [][Next]_vars

\* The run when every awaited operation ends (it resolves, rejects or
\* times out) and the event loop runs every continuation that is ready.
SpecLive == Init /\ [][Next]_vars /\ WF_vars(Next)

====
